---- MODULE Spec2Model ----
(***************************************************************************)
(* Payload deserialization engine of the console backend:                  *)
(*   - the Java Object Serialization Stream parser (java_parser.go), as a  *)
(*     stack machine over the byte cursor, the handle table and the heap   *)
(*     of class descriptors and maps;                                      *)
(*   - DeserializeRecord / deserializePayload / deserializeConsumerOffset  *)
(*     (deserializer.go).                                                  *)
(* Bytes are the integers 0..255; Go strings and []byte are sequences of   *)
(* bytes.                                                                  *)
(***************************************************************************)
EXTENDS Integers, Sequences, FiniteSets, TLC

VARIABLES
    buf,               \* the bytes behind sop.rd
    pos,               \* number of bytes of buf consumed so far
    maxDataBlockSize,  \* sop.maxDataBlockSize
    handles,           \* sop.handles
    classes,           \* heap of *clazz objects, a *clazz is an index (0 = nil)
    maps,              \* heap of map[string]interface{} objects
    stack,             \* the Go call stack of the parser, innermost frame last
    ctl,               \* what the parser does next
    maxAlloc,          \* largest element count handed to make() so far
    outcome,           \* what ParseSerializedObject returned
    steps,             \* number of steps the parser has taken since it was called
    refs               \* the References read since then: the index each asked for (i)
                       \* and the number of handles there were at that moment (n)

pvars == <<buf, pos, maxDataBlockSize, handles, classes, maps, stack, ctl,
           maxAlloc, outcome, steps, refs>>


VARIABLES
    record,            \* the kgo.Record: Topic, Key, Value, Headers
    parseJavaToJson,   \* the argument of DeserializeRecord
    deserializer,      \* the receiver d: its three services
    result,            \* the deserializedRecord DeserializeRecord builds and returns
    pc,                \* where DeserializeRecord stands
    input,             \* the record as it was when DeserializeRecord was first called
    first,             \* what the first call of DeserializeRecord on the record returned
    calls              \* the calls of DeserializeRecord made on the record so far
dvars == <<record, parseJavaToJson, deserializer, result, pc, input>>
cvars == <<first, calls>>

VARIABLES
    nodes,             \* heap of the backing arrays and maps of the Java object
    nodesIn,           \* nodes as java2json.ParseJavaObject returned it
    javaObject,        \* what ParseJavaObject returned: err and obj
    recordPayload,     \* the RecordPayload Base64JavaSerde.DeserializePayload returns
    serdePc            \* where Base64JavaSerde.DeserializePayload stands
svars == <<nodes, nodesIn, javaObject, recordPayload, serdePc>>

VARIABLES
    searchParams,      \* the string searchFunc makes of uiState.topicSettings.searchParams
    currentSearchRun,  \* this.currentSearchRun
    searchPhase,       \* this.messageSearch.searchPhase
    searches,          \* the searches started on this.messageSearch
    lastTrigger        \* the last call of searchFunc: its source, whether it was ignored
fvars == <<searchParams, currentSearchRun, searchPhase, searches, lastTrigger>>

VARIABLES
    deletionPending,   \* the state deletionPending of ConfirmDeleteAllRecordsModal
    error,             \* its state error
    notifications,     \* the notifications shown so far
    modalPc,           \* where the chain of onOk stands
    server,            \* what the backend answers to the calls of this onOk
    errors,            \* the errors the chain hands to finish
    attempts           \* the calls of onOk so far
mvars == <<deletionPending, error, notifications, modalPc, server, errors, attempts>>
uvars == <<fvars, mvars>>

rvars == <<dvars, cvars, svars, uvars>>
vars == <<pvars, rvars>>

----------------------------------------------------------------------------
(* Constants of java_parser.go *)

TYPE_MASK == 112
TYPE_CODE_MAX == 14
FLAGS_MASK == 15
REF_ID_MASK == 8257536
OBJECT_DATA_MIN_LENGTH == 4
ScSerializableWithoutWriteMethod == 2
ScSerializableWithWriteMethod == 3
ScExternalizeWithBlockData == 4
ScExternalizeWithoutBlockData == 12
STREAM_MAGIC == 44269
protocolVersion == 5
minClassNameLength == 2
serialVersionUIDLength == 8
TIMESTAMP_BLOCK_SIZE == 8
IsEnumBit == 16

typeNames ==
    << "Null", "Reference", "ClassDesc", "Object", "String", "Array", "Class",
       "BlockData", "EndBlockData", "Reset", "BlockDataLong", "Exception",
       "LongString", "ProxyClassDesc", "Enum" >>

allowedClazzNames == {"ClassDesc", "ProxyClassDesc", "Null", "Reference"}

knownParsers ==
    {"Enum", "BlockDataLong", "BlockData", "EndBlockData", "ClassDesc", "Class",
     "Array", "LongString", "String", "Null", "Object", "Reference"}

\* the keys of primitiveHandlers, as bytes: B C D F I J S Z L [
primitiveHandlers == {66, 67, 68, 70, 73, 74, 83, 90, 76, 91}

TypeL == 76
TypeArr == 91

OBJECT_VALUE_NAME == <<64, 64, 118, 97, 108, 117, 101, 64, 64>>
KeyAt == <<64>>
KeyClass == <<99, 108, 97, 115, 115>>
KeyExtends == <<101, 120, 116, 101, 110, 100, 115>>
KeyLength == <<108, 101, 110, 103, 116, 104>>
KeyValue == <<118, 97, 108, 117, 101>>
KeyA == <<97>>
KeyTime == <<116, 105, 109, 101>>
CycleMarker == <<91, 67, 89, 67, 76, 69, 93>>
KnownPostProcs ==
  << [sig |-> <<106, 97, 118, 97, 46, 108, 97, 110, 103, 46, 66, 121, 116, 101, 64, 57, 99, 52, 101, 54, 48, 56, 52, 101, 101, 53, 48, 102, 53, 49, 99>>,
      proc |-> "prim"],
     [sig |-> <<106, 97, 118, 97, 46, 108, 97, 110, 103, 46, 67, 104, 97, 114, 97, 99, 116, 101, 114, 64, 51, 52, 56, 98, 52, 55, 100, 57, 54, 98, 49, 97, 50, 54, 55, 56>>,
      proc |-> "prim"],
     [sig |-> <<106, 97, 118, 97, 46, 108, 97, 110, 103, 46, 68, 111, 117, 98, 108, 101, 64, 56, 48, 98, 51, 99, 50, 52, 97, 50, 57, 54, 98, 102, 98, 48, 52>>,
      proc |-> "prim"],
     [sig |-> <<106, 97, 118, 97, 46, 108, 97, 110, 103, 46, 70, 108, 111, 97, 116, 64, 100, 97, 101, 100, 99, 57, 97, 50, 100, 98, 51, 99, 102, 48, 101, 99>>,
      proc |-> "prim"],
     [sig |-> <<106, 97, 118, 97, 46, 108, 97, 110, 103, 46, 73, 110, 116, 101, 103, 101, 114, 64, 49, 50, 101, 50, 97, 48, 97, 52, 102, 55, 56, 49, 56, 55, 51, 56>>,
      proc |-> "prim"],
     [sig |-> <<106, 97, 118, 97, 46, 108, 97, 110, 103, 46, 76, 111, 110, 103, 64, 51, 98, 56, 98, 101, 52, 57, 48, 99, 99, 56, 102, 50, 51, 100, 102>>,
      proc |-> "prim"],
     [sig |-> <<106, 97, 118, 97, 46, 108, 97, 110, 103, 46, 83, 104, 111, 114, 116, 64, 54, 56, 52, 100, 51, 55, 49, 51, 51, 52, 54, 48, 100, 97, 53, 50>>,
      proc |-> "prim"],
     [sig |-> <<106, 97, 118, 97, 46, 108, 97, 110, 103, 46, 66, 111, 111, 108, 101, 97, 110, 64, 99, 100, 50, 48, 55, 50, 56, 48, 100, 53, 57, 99, 102, 97, 101, 101>>,
      proc |-> "prim"],
     [sig |-> <<106, 97, 118, 97, 46, 117, 116, 105, 108, 46, 65, 114, 114, 97, 121, 76, 105, 115, 116, 64, 55, 56, 56, 49, 100, 50, 49, 100, 57, 57, 99, 55, 54, 49, 57, 100>>,
      proc |-> "list"],
     [sig |-> <<106, 97, 118, 97, 46, 117, 116, 105, 108, 46, 65, 114, 114, 97, 121, 68, 101, 113, 117, 101, 64, 50, 48, 55, 99, 100, 97, 50, 101, 50, 52, 48, 100, 97, 48, 56, 98>>,
      proc |-> "list"],
     [sig |-> <<106, 97, 118, 97, 46, 117, 116, 105, 108, 46, 72, 97, 115, 104, 116, 97, 98, 108, 101, 64, 49, 51, 98, 98, 48, 102, 50, 53, 50, 49, 52, 97, 101, 52, 98, 56>>,
      proc |-> "map"],
     [sig |-> <<106, 97, 118, 97, 46, 117, 116, 105, 108, 46, 72, 97, 115, 104, 77, 97, 112, 64, 48, 53, 48, 55, 100, 97, 99, 49, 99, 51, 49, 54, 54, 48, 100, 49>>,
      proc |-> "map"],
     [sig |-> <<106, 97, 118, 97, 46, 117, 116, 105, 108, 46, 69, 110, 117, 109, 77, 97, 112, 64, 48, 54, 53, 100, 55, 100, 102, 55, 98, 101, 57, 48, 55, 99, 97, 49>>,
      proc |-> "enumMap"],
     [sig |-> <<106, 97, 118, 97, 46, 117, 116, 105, 108, 46, 72, 97, 115, 104, 83, 101, 116, 64, 98, 97, 52, 52, 56, 53, 57, 53, 57, 54, 98, 56, 98, 55, 51, 52>>,
      proc |-> "hashSet"],
     [sig |-> <<106, 97, 118, 97, 46, 117, 116, 105, 108, 46, 68, 97, 116, 101, 64, 54, 56, 54, 97, 56, 49, 48, 49, 52, 98, 53, 57, 55, 52, 49, 57>>,
      proc |-> "date"],
     [sig |-> <<106, 97, 118, 97, 46, 117, 116, 105, 108, 46, 67, 97, 108, 101, 110, 100, 97, 114, 64, 101, 54, 101, 97, 52, 100, 49, 101, 99, 56, 100, 99, 53, 98, 56, 101>>,
      proc |-> "calendar"],
     [sig |-> <<106, 97, 118, 97, 46, 117, 116, 105, 108, 46, 65, 114, 114, 97, 121, 115, 36, 65, 114, 114, 97, 121, 76, 105, 115, 116, 64, 100, 57, 97, 52, 51, 99, 98, 101, 99, 100, 56, 56, 48, 54, 100, 50>>,
      proc |-> "arraysArrayList"],
     [sig |-> <<106, 97, 118, 97, 46, 117, 116, 105, 108, 46, 99, 111, 110, 99, 117, 114, 114, 101, 110, 116, 46, 67, 111, 112, 121, 79, 110, 87, 114, 105, 116, 101, 65, 114, 114, 97, 121, 76, 105, 115, 116, 64, 55, 56, 53, 100, 57, 102, 100, 53, 52, 54, 97, 98, 57, 48, 99, 51>>,
      proc |-> "list"] >>


----------------------------------------------------------------------------
(* Values: the dynamic types an interface{} of the parser can hold *)

Nil == [k |-> "nil"]
Cls(id) == [k |-> "cls", id |-> id]
Str(s) == [k |-> "str", s |-> s]
Bytes(b) == [k |-> "bytes", b |-> b]
EndBlock == [k |-> "end"]
Num(ty, raw) == [k |-> "num", ty |-> ty, raw |-> raw]
Bool(v) == [k |-> "bool", v |-> v]
List(l) == [k |-> "list", l |-> l]
MapRef(id) == [k |-> "map", id |-> id]
TimeStr(raw) == [k |-> "time", raw |-> raw]

NoErr == "none"

Min(a, b) == IF a < b THEN a ELSE b
Max(a, b) == IF a > b THEN a ELSE b

\* buf[p+1 .. p+n]
Slice(s, p, n) == SubSeq(s, p + 1, p + n)

----------------------------------------------------------------------------
(* Maps: a map[string]interface{} is a sequence of entries with distinct keys *)

RECURSIVE MapIndex(_, _, _)
MapIndex(m, key, i) ==
    IF i > Len(m) THEN 0
    ELSE IF m[i].key = key THEN i
    ELSE MapIndex(m, key, i + 1)

MapHas(m, key) == MapIndex(m, key, 1) # 0

\* m[key], the nil interface when absent
MapGet(m, key) ==
    LET i == MapIndex(m, key, 1) IN IF i = 0 THEN Nil ELSE m[i].val

\* m[key] = val
MapPut(m, key, val) ==
    LET i == MapIndex(m, key, 1) IN
    IF i = 0 THEN Append(m, [key |-> key, val |-> val])
    ELSE [m EXCEPT ![i] = [key |-> key, val |-> val]]

\* delete(m, key)
MapDelete(m, key) ==
    LET i == MapIndex(m, key, 1) IN
    IF i = 0 THEN m ELSE SubSeq(m, 1, i - 1) \o SubSeq(m, i + 1, Len(m))

\* a variant of MapMerge that keeps the entries dst holds already
RECURSIVE MapMergeKeep(_, _, _)
MapMergeKeep(dst, src, i) ==
    IF i > Len(src) THEN dst
    ELSE MapMergeKeep(IF MapHas(dst, src[i].key) THEN dst
                      ELSE MapPut(dst, src[i].key, src[i].val), src, i + 1)

\* for name, val := range src { dst[name] = val }
RECURSIVE MapMerge(_, _, _)
MapMerge(dst, src, i) ==
    IF i > Len(src) THEN dst
    ELSE MapMerge(MapPut(dst, src[i].key, src[i].val), src, i + 1)

----------------------------------------------------------------------------
(* Fixed-width big-endian reads: binary.Read over sop.rd.                  *)
(* A read of n bytes at cursor p fails with io.EOF when no byte is left,   *)
(* with io.ErrUnexpectedEOF when fewer than n are, and consumes what is    *)
(* there.                                                                  *)

ReadErr(p, n) ==
    IF p + n <= Len(buf) THEN NoErr
    ELSE IF p >= Len(buf) THEN "EOF" ELSE "unexpected EOF"

ReadEnd(p, n) == Min(p + n, Len(buf))

readUInt8(p) ==
    [err |-> ReadErr(p, 1), p |-> ReadEnd(p, 1),
     v |-> IF p + 1 <= Len(buf) THEN buf[p + 1] ELSE 0]

readUInt16(p) ==
    [err |-> ReadErr(p, 2), p |-> ReadEnd(p, 2),
     v |-> IF p + 2 <= Len(buf) THEN buf[p + 1] * 256 + buf[p + 2] ELSE 0]

\* the low 31 bits of a 4-byte big-endian word
Low31(b) == (b[1] % 128) * 16777216 + b[2] * 65536 + b[3] * 256 + b[4]

\* int32: two's complement
Int32Of(b) ==
    IF b[1] >= 128 THEN (Low31(b) - 2147483647) - 1 ELSE Low31(b)

readInt32(p) ==
    [err |-> ReadErr(p, 4), p |-> ReadEnd(p, 4),
     v |-> IF p + 4 <= Len(buf) THEN Int32Of(Slice(buf, p, 4)) ELSE 0]

\* uint32: big is TRUE for values of 2^31 and more, v holds the low 31 bits
readUInt32(p) ==
    [err |-> ReadErr(p, 4), p |-> ReadEnd(p, 4),
     big |-> IF p + 4 <= Len(buf) THEN buf[p + 1] >= 128 ELSE FALSE,
     v |-> IF p + 4 <= Len(buf) THEN Low31(Slice(buf, p, 4)) ELSE 0]

\* readInt8, readInt16, readInt64, readFloat32, readFloat64: the raw bytes
readRaw(p, n) ==
    [err |-> ReadErr(p, n), p |-> ReadEnd(p, n),
     raw |-> IF p + n <= Len(buf) THEN Slice(buf, p, n) ELSE <<>>]

\* readString(cnt, asHex): the size guard, then io.CopyN, which reports a
\* short copy as io.EOF
readString(p, cnt, big) ==
    IF big \/ cnt > maxDataBlockSize
    THEN [err |-> "block data exceeds size of reader buffer", p |-> p, s |-> <<>>]
    ELSE IF p + cnt > Len(buf)
    THEN [err |-> "EOF", p |-> Len(buf), s |-> <<>>]
    ELSE [err |-> NoErr, p |-> p + cnt, s |-> Slice(buf, p, cnt)]

\* utf: a uint16 length, then the string
utf(p) ==
    LET n == readUInt16(p) IN
    IF n.err # NoErr THEN [err |-> n.err, p |-> n.p, s |-> <<>>]
    ELSE readString(n.p, n.v, FALSE)

\* utfLong: two uint32 words, the first of which must be 0
utfLong(p) ==
    LET hi == readUInt32(p) IN
    IF hi.err # NoErr THEN [err |-> hi.err, p |-> hi.p, s |-> <<>>]
    ELSE IF hi.big \/ hi.v # 0
    THEN [err |-> "unable to read string larger than 2^32 bytes", p |-> hi.p, s |-> <<>>]
    ELSE LET lo == readUInt32(hi.p) IN
         IF lo.err # NoErr THEN [err |-> lo.err, p |-> lo.p, s |-> <<>>]
         ELSE readString(lo.p, lo.v, lo.big)

\* hex.EncodeToString
HexDigit(d) == IF d < 10 THEN 48 + d ELSE 87 + d

RECURSIVE HexEncode(_)
HexEncode(b) ==
    IF b = <<>> THEN <<>>
    ELSE <<HexDigit(b[1] \div 16), HexDigit(b[1] % 16)>> \o HexEncode(Tail(b))

----------------------------------------------------------------------------
(* Library functions the deserializer calls on bytes *)

\* bytes.TrimLeft(payload, " \t\r\n")
RECURSIVE TrimLeft(_)
TrimLeft(b) ==
    IF b # <<>> /\ b[1] \in {32, 9, 13, 10} THEN TrimLeft(Tail(b)) ELSE b

\* utf8.Valid
IsCont(s, i) == i <= Len(s) /\ s[i] >= 128 /\ s[i] <= 191

\* the bytes of the rune starting at s[i] when they are well-formed UTF-8, 0 otherwise
RuneLen(s, i) ==
    LET c == s[i] IN
    IF c < 128 THEN 1
    ELSE IF c >= 194 /\ c <= 223 /\ IsCont(s, i + 1) THEN 2
    ELSE IF /\ c >= 224 /\ c <= 239 /\ IsCont(s, i + 1) /\ IsCont(s, i + 2)
            /\ (c = 224 => s[i + 1] >= 160) /\ (c = 237 => s[i + 1] <= 159) THEN 3
    ELSE IF /\ c >= 240 /\ c <= 244 /\ IsCont(s, i + 1) /\ IsCont(s, i + 2)
            /\ IsCont(s, i + 3)
            /\ (c = 240 => s[i + 1] >= 144) /\ (c = 244 => s[i + 1] <= 143) THEN 4
    ELSE 0

\* every byte either starts a well-formed rune or continues the one that the
\* nearest byte before it outside 0x80..0xBF starts
Utf8Valid(s) ==
    \A i \in 1..Len(s) :
        IF s[i] >= 128 /\ s[i] <= 191
        THEN \E k \in 1..3 : i - k >= 1 /\ s[i - k] >= 192 /\ RuneLen(s, i - k) > k
        ELSE RuneLen(s, i) > 0

\* json.Unmarshal(data, &obj) into an interface{} succeeds on the JSON texts.
\* Each J* operator takes the index of the first byte of a construct and
\* yields the index after it, 0 when the construct is malformed
IsWs(c) == c \in {32, 9, 13, 10}
IsDigit(c) == c >= 48 /\ c <= 57
IsHex(c) == IsDigit(c) \/ (c >= 97 /\ c <= 102) \/ (c >= 65 /\ c <= 70)

RECURSIVE JWs(_, _)
JWs(s, i) == IF i <= Len(s) /\ IsWs(s[i]) THEN JWs(s, i + 1) ELSE i

RECURSIVE JDigits(_, _)
JDigits(s, i) == IF i <= Len(s) /\ IsDigit(s[i]) THEN JDigits(s, i + 1) ELSE i

\* the characters of a string after the opening quote
RECURSIVE JChars(_, _)
JChars(s, i) ==
    IF i > Len(s) THEN 0
    ELSE IF s[i] = 34 THEN i + 1
    ELSE IF s[i] < 32 THEN 0
    ELSE IF s[i] = 92
    THEN IF i + 1 > Len(s) THEN 0
         ELSE IF s[i + 1] \in {34, 92, 47, 98, 102, 110, 114, 116} THEN JChars(s, i + 2)
         ELSE IF /\ s[i + 1] = 117 /\ i + 5 <= Len(s)
                 /\ \A j \in 2..5 : IsHex(s[i + j])
         THEN JChars(s, i + 6)
         ELSE 0
    ELSE JChars(s, i + 1)

JString(s, i) == IF i <= Len(s) /\ s[i] = 34 THEN JChars(s, i + 1) ELSE 0

JExponent(s, i) ==
    IF i <= Len(s) /\ s[i] \in {101, 69}
    THEN LET j == IF i + 1 <= Len(s) /\ s[i + 1] \in {43, 45} THEN i + 2 ELSE i + 1 IN
         IF JDigits(s, j) = j THEN 0 ELSE JDigits(s, j)
    ELSE i

JFraction(s, i) ==
    IF i <= Len(s) /\ s[i] = 46
    THEN IF JDigits(s, i + 1) = i + 1 THEN 0 ELSE JExponent(s, JDigits(s, i + 1))
    ELSE JExponent(s, i)

JNumber(s, i) ==
    LET j == IF i <= Len(s) /\ s[i] = 45 THEN i + 1 ELSE i IN
    IF j > Len(s) \/ ~IsDigit(s[j]) THEN 0
    ELSE IF s[j] = 48 THEN JFraction(s, j + 1)
    ELSE JFraction(s, JDigits(s, j))

JLiteral(s, i, lit) ==
    IF i + Len(lit) - 1 <= Len(s) /\ SubSeq(s, i, i + Len(lit) - 1) = lit
    THEN i + Len(lit) ELSE 0

RECURSIVE JValue(_, _)
RECURSIVE JElements(_, _)
RECURSIVE JMembers(_, _)

JValue(s, i) ==
    IF i > Len(s) THEN 0
    ELSE IF s[i] = 123
    THEN LET j == JWs(s, i + 1) IN
         IF j <= Len(s) /\ s[j] = 125 THEN j + 1 ELSE JMembers(s, j)
    ELSE IF s[i] = 91
    THEN LET j == JWs(s, i + 1) IN
         IF j <= Len(s) /\ s[j] = 93 THEN j + 1 ELSE JElements(s, j)
    ELSE IF s[i] = 34 THEN JString(s, i)
    ELSE IF s[i] = 116 THEN JLiteral(s, i, <<116, 114, 117, 101>>)
    ELSE IF s[i] = 102 THEN JLiteral(s, i, <<102, 97, 108, 115, 101>>)
    ELSE IF s[i] = 110 THEN JLiteral(s, i, <<110, 117, 108, 108>>)
    ELSE JNumber(s, i)

\* value ( ',' value )* ']'
JElements(s, i) ==
    LET v == JValue(s, i)
        j == JWs(s, v)
    IN  IF v = 0 \/ j > Len(s) THEN 0
        ELSE IF s[j] = 93 THEN j + 1
        ELSE IF s[j] = 44 THEN JElements(s, JWs(s, j + 1))
        ELSE 0

\* string ':' value ( ',' string ':' value )* '}'
JMembers(s, i) ==
    LET k == JString(s, i)
        c == JWs(s, k)
        v == IF k = 0 \/ c > Len(s) \/ s[c] # 58 THEN 0 ELSE JValue(s, JWs(s, c + 1))
        j == JWs(s, v)
    IN  IF v = 0 \/ j > Len(s) THEN 0
        ELSE IF s[j] = 125 THEN j + 1
        ELSE IF s[j] = 44 THEN JMembers(s, JWs(s, j + 1))
        ELSE 0

JsonUnmarshalOk(s) ==
    LET v == JValue(s, JWs(s, 1)) IN v # 0 /\ JWs(s, v) = Len(s) + 1

\* base64.StdEncoding
B64Char(v) ==
    IF v < 26 THEN 65 + v
    ELSE IF v < 52 THEN 97 + (v - 26)
    ELSE IF v < 62 THEN 48 + (v - 52)
    ELSE IF v = 62 THEN 43 ELSE 47

\* the 6-bit value of an alphabet character, -1 for any other byte
B64Val(c) ==
    IF c >= 65 /\ c <= 90 THEN c - 65
    ELSE IF c >= 97 /\ c <= 122 THEN c - 97 + 26
    ELSE IF c >= 48 /\ c <= 57 THEN c - 48 + 52
    ELSE IF c = 43 THEN 62
    ELSE IF c = 47 THEN 63
    ELSE -1

\* base64.StdEncoding.EncodeToString
RECURSIVE Base64Encode(_)
Base64Encode(b) ==
    IF Len(b) = 0 THEN <<>>
    ELSE IF Len(b) = 1
    THEN <<B64Char(b[1] \div 4), B64Char((b[1] % 4) * 16), 61, 61>>
    ELSE IF Len(b) = 2
    THEN <<B64Char(b[1] \div 4), B64Char((b[1] % 4) * 16 + b[2] \div 16),
           B64Char((b[2] % 16) * 4), 61>>
    ELSE <<B64Char(b[1] \div 4), B64Char((b[1] % 4) * 16 + b[2] \div 16),
           B64Char((b[2] % 16) * 4 + b[3] \div 64), B64Char(b[3] % 64)>>
         \o Base64Encode(SubSeq(b, 4, Len(b)))

\* the decoder skips carriage returns and line feeds
IsNewline(c) == c \in {10, 13}
DropNewlines(s) == SelectSeq(s, LAMBDA c : ~IsNewline(c))

\* quantum q of s holds well-formed characters: padding only closes the last one
QuantumOk(s, q) ==
    LET c1 == s[4 * q - 3]
        c2 == s[4 * q - 2]
        c3 == s[4 * q - 1]
        c4 == s[4 * q]
    IN  /\ B64Val(c1) >= 0
        /\ B64Val(c2) >= 0
        /\ IF 4 * q = Len(s)
           THEN \/ c3 = 61 /\ c4 = 61
                \/ B64Val(c3) >= 0 /\ (c4 = 61 \/ B64Val(c4) >= 0)
           ELSE B64Val(c3) >= 0 /\ B64Val(c4) >= 0

\* byte j of the decoded output
DecodedByte(s, j) ==
    LET q == (j - 1) \div 3
        v1 == B64Val(s[4 * q + 1])
        v2 == B64Val(s[4 * q + 2])
        v3 == B64Val(s[4 * q + 3])
        v4 == B64Val(s[4 * q + 4])
    IN  CASE (j - 1) % 3 = 0 -> v1 * 4 + v2 \div 16
          [] (j - 1) % 3 = 1 -> (v2 % 16) * 16 + v3 \div 4
          [] (j - 1) % 3 = 2 -> (v3 % 4) * 64 + v4

Base64Quanta(s) ==
    IF Len(s) % 4 # 0 \/ ~\A q \in 1..(Len(s) \div 4) : QuantumOk(s, q)
    THEN [err |-> "illegal base64 data", b |-> <<>>]
    ELSE LET pad == IF s = <<>> THEN 0
                    ELSE IF s[Len(s) - 1] = 61 THEN 2
                    ELSE IF s[Len(s)] = 61 THEN 1
                    ELSE 0
         IN  [err |-> NoErr,
              b |-> [j \in 1..(3 * (Len(s) \div 4) - pad) |-> DecodedByte(s, j)]]

\* base64.StdEncoding.DecodeString
Base64Decode(s) == Base64Quanta(DropNewlines(s))

----------------------------------------------------------------------------
(* Formatting of parsed values: json.Marshal and fmt.Sprint *)

\* quotient and remainder of a big-endian number by 10
RECURSIVE DivMod10(_, _)
DivMod10(b, rem) ==
    IF b = <<>> THEN [q |-> <<>>, r |-> rem]
    ELSE LET cur == rem * 256 + b[1]
             rest == DivMod10(Tail(b), cur % 10)
         IN  [q |-> <<cur \div 10>> \o rest.q, r |-> rest.r]

AllZero(b) == \A i \in 1..Len(b) : b[i] = 0

\* decimal digits of a big-endian magnitude
RECURSIVE Digits(_)
Digits(b) ==
    LET d == DivMod10(b, 0) IN
    IF AllZero(d.q) THEN <<48 + d.r>> ELSE Digits(d.q) \o <<48 + d.r>>

\* b + 1 on big-endian bytes, the carry out dropped
RECURSIVE Increment(_)
Increment(b) ==
    IF b = <<>> THEN <<>>
    ELSE IF b[Len(b)] = 255 THEN Increment(SubSeq(b, 1, Len(b) - 1)) \o <<0>>
    ELSE SubSeq(b, 1, Len(b) - 1) \o <<b[Len(b)] + 1>>

\* strconv.FormatInt of a two's complement integer given by its bytes
SignedDecimal(raw) ==
    IF raw[1] >= 128
    THEN <<45>> \o Digits(Increment([i \in 1..Len(raw) |-> 255 - raw[i]]))
    ELSE Digits(raw)

\* exponent bits all set: NaN or an infinity
FloatIsSpecial(ty, raw) ==
    IF ty = "F" THEN raw[1] % 128 = 127 /\ raw[2] >= 128
    ELSE raw[1] % 128 = 127 /\ raw[2] >= 240

\* the text of a float: zero is exact, the digits of any other finite float
\* are not modelled and written 0.5
FloatText(raw) ==
    (IF raw[1] >= 128 THEN <<45>> ELSE <<>>)
    \o (IF AllZero(Tail(raw)) /\ raw[1] % 128 = 0 THEN <<48>> ELSE <<48, 46, 53>>)

NumText(v) == IF v.ty \in {"F", "D"} THEN FloatText(v.raw) ELSE SignedDecimal(v.raw)

\* time.Format(TIMESTAMP_LAYOUT): 23 characters whose digits depend on the
\* local time zone and are not modelled
TimeText ==
    <<48, 49, 47, 48, 49, 47, 49, 57, 55, 48, 32, 48, 48, 58, 48, 48, 58, 48,
      48, 46, 48, 48, 48>>

EndBlockText == <<101, 110, 100, 66, 108, 111, 99, 107>>
NullText == <<110, 117, 108, 108>>
TrueText == <<116, 114, 117, 101>>
FalseText == <<102, 97, 108, 115, 101>>
NilText == <<60, 110, 105, 108, 62>>

\* lexicographic order of byte strings
RECURSIVE BytesLess(_, _)
BytesLess(a, b) ==
    IF b = <<>> THEN FALSE
    ELSE IF a = <<>> THEN TRUE
    ELSE IF a[1] # b[1] THEN a[1] < b[1]
    ELSE BytesLess(Tail(a), Tail(b))

\* the entries of a map sorted by key
RECURSIVE InsertEntry(_, _)
InsertEntry(sorted, e) ==
    IF sorted = <<>> THEN <<e>>
    ELSE IF BytesLess(e.key.s, sorted[1].key.s) THEN <<e>> \o sorted
    ELSE <<sorted[1]>> \o InsertEntry(Tail(sorted), e)

RECURSIVE SortEntries(_)
SortEntries(m) ==
    IF m = <<>> THEN <<>> ELSE InsertEntry(SortEntries(Tail(m)), m[1])

HexByte(c) == <<HexDigit(c \div 16), HexDigit(c % 16)>>

\* the characters of a JSON string as json.Marshal escapes them
RECURSIVE JsonChars(_, _)
JsonChars(s, i) ==
    IF i > Len(s) THEN <<>>
    ELSE LET c == s[i]
             n == RuneLen(s, i)
         IN  IF c \in {34, 92} THEN <<92, c>> \o JsonChars(s, i + 1)
             ELSE IF c = 10 THEN <<92, 110>> \o JsonChars(s, i + 1)
             ELSE IF c = 13 THEN <<92, 114>> \o JsonChars(s, i + 1)
             ELSE IF c = 9 THEN <<92, 116>> \o JsonChars(s, i + 1)
             ELSE IF c < 32 \/ c \in {60, 62, 38}
             THEN <<92, 117, 48, 48>> \o HexByte(c) \o JsonChars(s, i + 1)
             ELSE IF n = 0
             THEN <<92, 117, 102, 102, 102, 100>> \o JsonChars(s, i + 1)
             ELSE IF n = 3 /\ c = 226 /\ s[i + 1] = 128 /\ s[i + 2] \in {168, 169}
             THEN <<92, 117, 50, 48, 50, HexDigit(s[i + 2] - 160)>> \o JsonChars(s, i + 3)
             ELSE SubSeq(s, i, i + n - 1) \o JsonChars(s, i + n)

JsonString(s) == <<34>> \o JsonChars(s, 1) \o <<34>>

\* json.Marshal of a parsed value; mp is the heap of maps
RECURSIVE JsonMarshal(_, _)
RECURSIVE JsonList(_, _, _)
RECURSIVE JsonEntries(_, _, _)

JsonMarshal(v, mp) ==
    CASE v.k = "nil" -> [err |-> NoErr, b |-> NullText]
      [] v.k = "cls" -> [err |-> NoErr, b |-> IF v.id = 0 THEN NullText ELSE <<123, 125>>]
      [] v.k = "str" -> [err |-> NoErr, b |-> JsonString(v.s)]
      [] v.k = "bytes" -> [err |-> NoErr, b |-> <<34>> \o Base64Encode(v.b) \o <<34>>]
      [] v.k = "end" -> [err |-> NoErr, b |-> JsonString(EndBlockText)]
      [] v.k = "bool" -> [err |-> NoErr, b |-> IF v.v THEN TrueText ELSE FalseText]
      [] v.k = "time" -> [err |-> NoErr, b |-> JsonString(TimeText)]
      [] v.k = "num" ->
            IF v.ty \in {"F", "D"} /\ FloatIsSpecial(v.ty, v.raw)
            THEN [err |-> "json: unsupported value", b |-> <<>>]
            ELSE [err |-> NoErr, b |-> NumText(v)]
      [] v.k = "list" ->
            LET r == JsonList(v.l, 1, mp) IN
            [err |-> r.err, b |-> <<91>> \o r.b \o <<93>>]
      [] v.k = "map" ->
            LET r == JsonEntries(SortEntries(mp[v.id]), 1, mp) IN
            [err |-> r.err, b |-> <<123>> \o r.b \o <<125>>]

JsonList(l, i, mp) ==
    IF i > Len(l) THEN [err |-> NoErr, b |-> <<>>]
    ELSE LET e == JsonMarshal(l[i], mp)
             rest == JsonList(l, i + 1, mp)
         IN  IF e.err # NoErr THEN e
             ELSE IF rest.err # NoErr THEN rest
             ELSE [err |-> NoErr,
                   b |-> (IF i > 1 THEN <<44>> ELSE <<>>) \o e.b \o rest.b]

JsonEntries(m, i, mp) ==
    IF i > Len(m) THEN [err |-> NoErr, b |-> <<>>]
    ELSE LET e == JsonMarshal(m[i].val, mp)
             rest == JsonEntries(m, i + 1, mp)
         IN  IF e.err # NoErr THEN e
             ELSE IF rest.err # NoErr THEN rest
             ELSE [err |-> NoErr,
                   b |-> (IF i > 1 THEN <<44>> ELSE <<>>)
                         \o JsonString(m[i].key.s) \o <<58>> \o e.b \o rest.b]

\* fmt.Sprint of a parsed value. A *clazz prints as its fields at the top and
\* as an address below it: neither text is modelled beyond its first bytes
RECURSIVE Sprint(_, _, _)
RECURSIVE SprintList(_, _, _)
RECURSIVE SprintEntries(_, _, _)
RECURSIVE SprintBytes(_, _)

Sprint(v, mp, depth) ==
    CASE v.k = "nil" -> NilText
      [] v.k = "cls" ->
            IF v.id = 0 THEN NilText
            ELSE IF depth = 0 THEN <<38, 123, 125>> ELSE <<48, 120, 99, 48>>
      [] v.k = "str" -> v.s
      [] v.k = "bytes" -> <<91>> \o SprintBytes(v.b, 1) \o <<93>>
      [] v.k = "end" -> EndBlockText
      [] v.k = "bool" -> IF v.v THEN TrueText ELSE FalseText
      [] v.k = "time" -> TimeText
      [] v.k = "num" ->
            IF v.ty \in {"F", "D"} /\ FloatIsSpecial(v.ty, v.raw)
            THEN <<78, 97, 78>>
            ELSE NumText(v)
      [] v.k = "list" -> <<91>> \o SprintList(v.l, 1, mp) \o <<93>>
      [] v.k = "map" ->
            <<109, 97, 112, 91>> \o SprintEntries(SortEntries(mp[v.id]), 1, mp) \o <<93>>

SprintBytes(b, i) ==
    IF i > Len(b) THEN <<>>
    ELSE (IF i > 1 THEN <<32>> ELSE <<>>) \o Digits(<<b[i]>>) \o SprintBytes(b, i + 1)

SprintList(l, i, mp) ==
    IF i > Len(l) THEN <<>>
    ELSE (IF i > 1 THEN <<32>> ELSE <<>>) \o Sprint(l[i], mp, 1) \o SprintList(l, i + 1, mp)

SprintEntries(m, i, mp) ==
    IF i > Len(m) THEN <<>>
    ELSE (IF i > 1 THEN <<32>> ELSE <<>>) \o m[i].key.s \o <<58>>
         \o Sprint(m[i].val, mp, 1) \o SprintEntries(m, i + 1, mp)

----------------------------------------------------------------------------
(* Primitive handlers *)

\* string(rune(charCode)): the UTF-8 encoding of the rune, U+FFFD for a surrogate
RuneString(c) ==
    IF c < 128 THEN <<c>>
    ELSE IF c < 2048 THEN <<192 + (c \div 64), 128 + (c % 64)>>
    ELSE IF c >= 55296 /\ c <= 57343 THEN <<239, 191, 189>>
    ELSE <<224 + (c \div 4096), 128 + ((c \div 64) % 64), 128 + (c % 64)>>

\* number of bytes the handler of a non-reference type code reads
PrimWidth(t) ==
    CASE t = 66 -> 1   \* B
      [] t = 67 -> 2   \* C
      [] t = 68 -> 8   \* D
      [] t = 70 -> 4   \* F
      [] t = 73 -> 4   \* I
      [] t = 74 -> 8   \* J
      [] t = 83 -> 2   \* S
      [] t = 90 -> 1   \* Z

\* primitiveHandlers[t](sop) for the types read in place: B C D F I J S Z
PrimRead(t, p) ==
    LET r == readRaw(p, PrimWidth(t)) IN
    [err |-> r.err, p |-> r.p,
     val |-> IF r.err # NoErr THEN Nil
             ELSE CASE t = 67 -> Str(RuneString(r.raw[1] * 256 + r.raw[2]))
                    [] t = 90 -> Bool(r.raw[1] # 0)
                    [] t = 66 -> Num("B", r.raw)
                    [] t = 68 -> Num("D", r.raw)
                    [] t = 70 -> Num("F", r.raw)
                    [] t = 73 -> Num("I", r.raw)
                    [] t = 74 -> Num("J", r.raw)
                    [] t = 83 -> Num("S", r.raw)]

----------------------------------------------------------------------------
(* Post processors of well-known classes *)

K(s) == [s |-> s]

\* the map key fmt.Sprint(key)
SprintKey(v, mp) == K(Sprint(v, mp, 0))

\* KnownPostProcs[cls.name + "@" + cls.serialVersionUID]
RECURSIVE PostProcLookup(_, _)
PostProcLookup(sig, i) ==
    IF i > Len(KnownPostProcs) THEN "none"
    ELSE IF KnownPostProcs[i].sig = sig THEN KnownPostProcs[i].proc
    ELSE PostProcLookup(sig, i + 1)

PostProcOf(cls) == PostProcLookup(cls.name \o KeyAt \o cls.serialVersionUID, 1)

postProcSize(data, offset) ==
    IF Len(data) < 1
    THEN [err |-> "invalid data: at least one element required", size |-> 0]
    ELSE IF data[1].k # "bytes"
    THEN [err |-> "unexpected data at position 0", size |-> 0]
    ELSE IF Len(data[1].b) < offset + OBJECT_DATA_MIN_LENGTH
    THEN [err |-> "incorrect data at position 0", size |-> 0]
    ELSE [err |-> NoErr, size |-> Int32Of(Slice(data[1].b, offset, 4))]

PPResult(err, fields, newmap) ==
    [err |-> err, panic |-> FALSE, fields |-> fields, newmap |-> newmap]

primObjectPostProc(fields, data) ==
    PPResult(NoErr, MapPut(fields, K(OBJECT_VALUE_NAME), MapGet(fields, K(KeyValue))), <<>>)

\* listPostProc taking every annotation, the leading block included
listPostProcKeepsBlock(fields, data) ==
    LET sz == postProcSize(data, 0) IN
    IF sz.err # NoErr THEN PPResult(sz.err, fields, <<>>)
    ELSE IF Len(data) - 1 # sz.size
    THEN PPResult("incorrect number of elements", fields, <<>>)
    ELSE PPResult(NoErr, MapPut(fields, K(OBJECT_VALUE_NAME), List(data)), <<>>)

listPostProc(fields, data) ==
    LET sz == postProcSize(data, 0) IN
    IF sz.err # NoErr THEN PPResult(sz.err, fields, <<>>)
    ELSE IF Len(data) - 1 # sz.size
    THEN PPResult("incorrect number of elements", fields, <<>>)
    ELSE PPResult(NoErr,
                  MapPut(fields, K(OBJECT_VALUE_NAME), List(SubSeq(data, 2, sz.size + 1))),
                  <<>>)

\* m[fmt.Sprint(data[2*i+1])] = data[2*i+2] for i < size
RECURSIVE PairUp(_, _, _, _, _)
PairUp(data, size, i, m, mp) ==
    IF i >= size THEN m
    ELSE PairUp(data, size, i + 1,
                MapPut(m, SprintKey(data[2 * i + 2], mp), data[2 * i + 3]), mp)

\* mapPostProc (offset 4) and enumMapPostProc (offset 0); newId is the heap
\* index the new map m gets. size*2+1 > len(data) is written without the
\* product, which is evaluated in 64 bits by the code
pairsPostProc(fields, data, offset, newId, mp) ==
    LET sz == postProcSize(data, offset) IN
    IF sz.err # NoErr THEN PPResult(sz.err, fields, <<>>)
    ELSE IF sz.size >= (Len(data) + 1) \div 2
    THEN PPResult("incorrect number of elements", fields, <<>>)
    ELSE PPResult(NoErr, MapPut(fields, K(OBJECT_VALUE_NAME), MapRef(newId)),
                  <<PairUp(data, sz.size, 0, <<>>, mp)>>)

hashSetPostProc(fields, data) ==
    LET sz == postProcSize(data, 8) IN
    IF sz.err # NoErr THEN PPResult(sz.err, fields, <<>>)
    ELSE IF Len(data) - 1 # sz.size
    THEN PPResult("incorrect number of elements", fields, <<>>)
    ELSE PPResult(NoErr,
                  MapPut(fields, K(OBJECT_VALUE_NAME), List(SubSeq(data, 2, sz.size + 1))),
                  <<>>)

datePostProc(fields, data) ==
    IF Len(data) < 1
    THEN PPResult("invalid data: at least one element required", fields, <<>>)
    ELSE IF data[1].k # "bytes"
    THEN PPResult("unexpected data at position 0", fields, <<>>)
    ELSE IF Len(data[1].b) < TIMESTAMP_BLOCK_SIZE
    THEN PPResult("incorrect data at position 0", fields, <<>>)
    ELSE PPResult(NoErr,
                  MapPut(fields, K(OBJECT_VALUE_NAME),
                         TimeStr(SubSeq(data[1].b, 1, TIMESTAMP_BLOCK_SIZE))),
                  <<>>)

\* fields["time"].(int64): the type assertion panics unless the value is a long
calendarPostProc(fields, data) ==
    LET t == MapGet(fields, K(KeyTime)) IN
    IF t.k = "num" /\ t.ty = "J"
    THEN PPResult(NoErr, MapPut(fields, K(OBJECT_VALUE_NAME), TimeStr(t.raw)), <<>>)
    ELSE [err |-> "interface conversion", panic |-> TRUE, fields |-> fields,
          newmap |-> <<>>]

arraysArrayListPostProc(fields, data) ==
    PPResult(NoErr, MapPut(fields, K(OBJECT_VALUE_NAME), MapGet(fields, K(KeyA))), <<>>)

ApplyPostProc(proc, fields, data, newId, mp) ==
    CASE proc = "prim" -> primObjectPostProc(fields, data)
      [] proc = "list" -> listPostProc(fields, data)
      [] proc = "map" -> pairsPostProc(fields, data, 4, newId, mp)
      [] proc = "enumMap" -> pairsPostProc(fields, data, 0, newId, mp)
      [] proc = "hashSet" -> hashSetPostProc(fields, data)
      [] proc = "date" -> datePostProc(fields, data)
      [] proc = "calendar" -> calendarPostProc(fields, data)
      [] proc = "arraysArrayList" -> arraysArrayListPostProc(fields, data)
      [] OTHER -> PPResult(NoErr, fields, <<>>)

----------------------------------------------------------------------------
(* Pieces of content(), classDesc(), parseReference, recursiveClassData *)

\* the tail of content(): a map holding OBJECT_VALUE_NAME is replaced by that
\* value, any other map loses its "@", "class" and "extends" entries
ContentPost(val, mp) ==
    IF val.k # "map" THEN [val |-> val, maps |-> mp]
    ELSE LET m == mp[val.id] IN
         IF MapGet(m, K(OBJECT_VALUE_NAME)) # Nil
         THEN [val |-> MapGet(m, K(OBJECT_VALUE_NAME)), maps |-> mp]
         ELSE [val |-> val,
               maps |-> [mp EXCEPT ![val.id] =
                   MapDelete(MapDelete(MapDelete(m, K(KeyAt)), K(KeyClass)), K(KeyExtends))]]

\* classDesc(): what it makes of the value content(allowedClazzNames) returned
ClassDescOf(x) ==
    IF x.k = "nil" THEN [err |-> NoErr, id |-> 0]
    ELSE IF x.k = "cls" THEN [err |-> NoErr, id |-> x.id]
    ELSE [err |-> "unexpected type returned while reading class description", id |-> 0]

\* a variant of RefIndex that counts the handles from 1
RefIndexFromOne(refIdx) ==
    IF refIdx >= REF_ID_MASK - 2147483647 - 1
    THEN refIdx - REF_ID_MASK - 1
    ELSE ((refIdx + 2147483647) + 1) + ((2147483647 - REF_ID_MASK) + 1) - 1

\* int(refIdx - REF_ID_MASK), the subtraction wrapping in 32 bits
RefIndex(refIdx) ==
    IF refIdx >= REF_ID_MASK - 2147483647 - 1
    THEN refIdx - REF_ID_MASK
    ELSE ((refIdx + 2147483647) + 1) + ((2147483647 - REF_ID_MASK) + 1)

\* a variant of ResolveReference without the cycle marker: a reserved slot
\* resolves to what it holds
ResolveReferenceNoMarker(refIdx) ==
    LET i == RefIndex(refIdx) IN
    IF i > -1 /\ i < Len(handles) THEN handles[i + 1] ELSE Nil

\* the handle a Reference resolves to
ResolveReference(refIdx) ==
    LET i == RefIndex(refIdx) IN
    IF i > -1 /\ i < Len(handles)
    THEN IF handles[i + 1] = Nil THEN Str(CycleMarker) ELSE handles[i + 1]
    ELSE Nil

\* the classes recursiveClassData reads class data for, in that order
RECURSIVE RecursiveOrder(_, _)
RecursiveOrder(cls, seen) ==
    IF cls = 0 THEN <<>>
    ELSE LET super == classes[cls].super IN
         IF super # 0 /\ super \notin (seen \cup {cls})
         THEN RecursiveOrder(super, seen \cup {cls, super}) \o <<cls>>
         ELSE <<cls>>

----------------------------------------------------------------------------
(* The parser as a machine.                                                *)
(* ctl.op: "start"   ParseSerializedObject is entered                      *)
(*         "content" content(ctl.allowed) is entered                       *)
(*         "ret"     content() returns (ctl.val, ctl.err) to the frame on  *)
(*                   top of the stack                                      *)
(*         "run"     the frame on top of the stack goes on                 *)
(*         "halt"    ParseSerializedObject has returned or panicked        *)

CtlStart == [op |-> "start", allowed |-> "any", val |-> Nil, err |-> NoErr]
CtlContent(allowed) == [op |-> "content", allowed |-> allowed, val |-> Nil, err |-> NoErr]
CtlRet(val, err) == [op |-> "ret", allowed |-> "any", val |-> val, err |-> err]
CtlRun == [op |-> "run", allowed |-> "any", val |-> Nil, err |-> NoErr]
CtlHalt == [op |-> "halt", allowed |-> "any", val |-> Nil, err |-> NoErr]

NoOutcome == [status |-> "running", content |-> Nil, err |-> NoErr]

Top == stack[Len(stack)]
Pop == SubSeq(stack, 1, Len(stack) - 1)
SetTop(fr) == [stack EXCEPT ![Len(stack)] = fr]
Push(fr) == Append(stack, fr)

NewClazz(name, uid) ==
    [name |-> name, serialVersionUID |-> uid, flags |-> 0, isEnum |-> FALSE,
     fields |-> <<>>, annotations |-> <<>>, super |-> 0]

Entry(key, val) == [key |-> K(key), val |-> val]

\* a variant of ContentKind whose subtraction does not wrap: a tag below
\* TYPE_MASK gives the kind index 0
ContentKindClamped(allowed) ==
    LET tag == readUInt8(pos)
        typeCode == IF tag.v < TYPE_MASK THEN 0 ELSE tag.v - TYPE_MASK
    IN  IF tag.err # NoErr THEN [name |-> "", err |-> tag.err]
        ELSE IF typeCode > TYPE_CODE_MAX THEN [name |-> "", err |-> "unknown type"]
        ELSE IF allowed = "clazz" /\ typeNames[typeCode + 1] \notin allowedClazzNames
        THEN [name |-> "", err |-> "not allowed here"]
        ELSE IF typeNames[typeCode + 1] \notin knownParsers
        THEN [name |-> "", err |-> "parsing is currently not supported"]
        ELSE [name |-> typeNames[typeCode + 1], err |-> NoErr]

\* content() up to the dispatch: the kind it dispatches on (name), or the
\* error it rejects the tag with
ContentKind(allowed) ==
    LET tag == readUInt8(pos)
        typeCode == (tag.v + 256 - TYPE_MASK) % 256
    IN  IF tag.err # NoErr THEN [name |-> "", err |-> tag.err]
        ELSE IF typeCode > TYPE_CODE_MAX THEN [name |-> "", err |-> "unknown type"]
        ELSE IF allowed = "clazz" /\ typeNames[typeCode + 1] \notin allowedClazzNames
        THEN [name |-> "", err |-> "not allowed here"]
        ELSE IF typeNames[typeCode + 1] \notin knownParsers
        THEN [name |-> "", err |-> "parsing is currently not supported"]
        ELSE [name |-> typeNames[typeCode + 1], err |-> NoErr]

Dispatch(name) == ctl.op = "content" /\ ContentKind(ctl.allowed).name = name

\* a parse function returns val without error: content() post-processes it
Return(val, mp) ==
    LET r == ContentPost(val, mp) IN
    /\ ctl' = CtlRet(r.val, NoErr)
    /\ maps' = r.maps

\* a parse function returns (val, err)
ReturnErr(val, err) == ctl' = CtlRet(val, err)

\* ParseSerializedObject returns (content, err)
Returned(content, err) ==
    /\ outcome' = [status |-> "returned", content |-> content, err |-> err]
    /\ ctl' = CtlHalt
    /\ stack' = <<>>

\* a runtime panic unwinds the parser
Panicked(msg) ==
    /\ outcome' = [status |-> "panic", content |-> Nil, err |-> msg]
    /\ ctl' = CtlHalt
    /\ stack' = <<>>

\* a variant of ParseSerializedObject that accepts any protocol version
ParseSerializedObjectAnyVersion ==
    /\ ctl.op = "start"
    /\ LET m == readUInt16(pos)
           v == readUInt16(m.p)
       IN  IF m.err # NoErr \/ m.v # STREAM_MAGIC
           THEN /\ pos' = m.p
                /\ Returned(Nil, IF m.err # NoErr THEN m.err
                                 ELSE "magic value STREAM_MAGIC not found")
           ELSE IF v.err # NoErr
           THEN /\ pos' = v.p
                /\ Returned(Nil, v.err)
           ELSE /\ pos' = v.p
                /\ stack' = <<[f |-> "top"]>>
                /\ ctl' = CtlContent("any")
                /\ UNCHANGED outcome
    /\ UNCHANGED <<buf, maxDataBlockSize, handles, classes, maps, maxAlloc>>
    /\ steps' = steps + 1
    /\ UNCHANGED refs
    /\ UNCHANGED rvars

\* magic(), version(), then the top-level content()
ParseSerializedObject ==
    /\ ctl.op = "start"
    /\ LET m == readUInt16(pos)
           v == readUInt16(m.p)
       IN  IF m.err # NoErr \/ m.v # STREAM_MAGIC
           THEN /\ pos' = m.p
                /\ Returned(Nil, IF m.err # NoErr THEN m.err
                                 ELSE "magic value STREAM_MAGIC not found")
           ELSE IF v.err # NoErr \/ v.v # protocolVersion
           THEN /\ pos' = v.p
                /\ Returned(Nil, IF v.err # NoErr THEN v.err
                                 ELSE "protocol version not recognized")
           ELSE /\ pos' = v.p
                /\ stack' = <<[f |-> "top"]>>
                /\ ctl' = CtlContent("any")
                /\ UNCHANGED outcome
    /\ UNCHANGED <<buf, maxDataBlockSize, handles, classes, maps, maxAlloc>>
    /\ steps' = steps + 1
    /\ UNCHANGED refs
    /\ UNCHANGED rvars

\* a variant of ContentReject that reads the content again after an unknown
\* tag, which it has left unread
ContentRejectRetry ==
    /\ ctl.op = "content"
    /\ LET kind == ContentKind(ctl.allowed) IN
       /\ kind.err # NoErr
       /\ pos' = IF kind.err \in {"EOF", "unknown type"} THEN pos ELSE pos + 1
       /\ IF kind.err = "unknown type"
          THEN ctl' = CtlContent(ctl.allowed)
          ELSE ReturnErr(Nil, kind.err)
    /\ UNCHANGED <<buf, maxDataBlockSize, handles, classes, maps, stack, maxAlloc, outcome>>
    /\ steps' = steps + 1
    /\ UNCHANGED refs
    /\ UNCHANGED rvars

\* content(): no tag byte, an unknown tag (the byte is unread), a kind not
\* allowed here, or a kind without a parser
ContentReject ==
    /\ ctl.op = "content"
    /\ LET kind == ContentKind(ctl.allowed) IN
       /\ kind.err # NoErr
       /\ pos' = IF kind.err \in {"EOF", "unknown type"} THEN pos ELSE pos + 1
       /\ ReturnErr(Nil, kind.err)
    /\ UNCHANGED <<buf, maxDataBlockSize, handles, classes, maps, stack, maxAlloc, outcome>>
    /\ steps' = steps + 1
    /\ UNCHANGED refs
    /\ UNCHANGED rvars

parseNull ==
    /\ Dispatch("Null")
    /\ pos' = pos + 1
    /\ Return(Nil, maps)
    /\ UNCHANGED <<buf, maxDataBlockSize, handles, classes, stack, maxAlloc, outcome>>
    /\ steps' = steps + 1
    /\ UNCHANGED refs
    /\ UNCHANGED rvars

parseEndBlockData ==
    /\ Dispatch("EndBlockData")
    /\ pos' = pos + 1
    /\ Return(EndBlock, maps)
    /\ UNCHANGED <<buf, maxDataBlockSize, handles, classes, stack, maxAlloc, outcome>>
    /\ steps' = steps + 1
    /\ UNCHANGED refs
    /\ UNCHANGED rvars

parseReference ==
    /\ Dispatch("Reference")
    /\ LET r == readInt32(pos + 1) IN
       /\ pos' = r.p
       /\ refs' = IF r.err # NoErr THEN refs
                  ELSE Append(refs, [i |-> RefIndex(r.v), n |-> Len(handles)])
       /\ IF r.err # NoErr
          THEN ReturnErr(Nil, r.err) /\ UNCHANGED maps
          ELSE Return(ResolveReference(r.v), maps)
    /\ UNCHANGED <<buf, maxDataBlockSize, handles, classes, stack, maxAlloc, outcome>>
    /\ steps' = steps + 1
    /\ UNCHANGED rvars

parseString ==
    /\ Dispatch("String")
    /\ LET u == utf(pos + 1) IN
       /\ pos' = u.p
       /\ IF u.err # NoErr
          THEN ReturnErr(Str(<<>>), u.err) /\ UNCHANGED <<maps, handles>>
          ELSE /\ handles' = Append(handles, Str(u.s))
               /\ Return(Str(u.s), maps)
    /\ UNCHANGED <<buf, maxDataBlockSize, classes, stack, maxAlloc, outcome>>
    /\ steps' = steps + 1
    /\ UNCHANGED refs
    /\ UNCHANGED rvars

parseLongString ==
    /\ Dispatch("LongString")
    /\ LET u == utfLong(pos + 1) IN
       /\ pos' = u.p
       /\ IF u.err # NoErr
          THEN ReturnErr(Str(<<>>), u.err) /\ UNCHANGED <<maps, handles>>
          ELSE /\ handles' = Append(handles, Str(u.s))
               /\ Return(Str(u.s), maps)
    /\ UNCHANGED <<buf, maxDataBlockSize, classes, stack, maxAlloc, outcome>>
    /\ steps' = steps + 1
    /\ UNCHANGED refs
    /\ UNCHANGED rvars

\* a uint8 size, make([]byte, size), io.ReadFull
parseBlockData ==
    /\ Dispatch("BlockData")
    /\ LET size == readUInt8(pos + 1)
           data == readRaw(size.p, size.v)
       IN  IF size.err # NoErr
           THEN /\ pos' = size.p
                /\ ReturnErr(Nil, size.err)
                /\ UNCHANGED <<maps, maxAlloc>>
           ELSE /\ maxAlloc' = Max(maxAlloc, size.v)
                /\ pos' = data.p
                /\ IF data.err # NoErr
                   THEN ReturnErr(Nil, data.err) /\ UNCHANGED maps
                   ELSE Return(Bytes(data.raw), maps)
    /\ UNCHANGED <<buf, maxDataBlockSize, handles, classes, stack, outcome>>
    /\ steps' = steps + 1
    /\ UNCHANGED refs
    /\ UNCHANGED rvars

\* a variant of parseBlockDataLong without the size guard
parseBlockDataLongUnguarded ==
    /\ Dispatch("BlockDataLong")
    /\ LET size == readUInt32(pos + 1)
           data == readRaw(size.p, size.v)
       IN  IF size.err # NoErr
           THEN /\ pos' = size.p
                /\ ReturnErr(Nil, size.err)
                /\ UNCHANGED <<maps, maxAlloc>>
           ELSE /\ maxAlloc' = Max(maxAlloc, size.v)
                /\ pos' = data.p
                /\ IF data.err # NoErr
                   THEN ReturnErr(Nil, data.err) /\ UNCHANGED maps
                   ELSE Return(Bytes(data.raw), maps)
    /\ UNCHANGED <<buf, maxDataBlockSize, handles, classes, stack, outcome>>
    /\ steps' = steps + 1
    /\ UNCHANGED refs
    /\ UNCHANGED rvars

\* a uint32 size, the size guard, make([]byte, size), io.ReadFull
parseBlockDataLong ==
    /\ Dispatch("BlockDataLong")
    /\ LET size == readUInt32(pos + 1)
           data == readRaw(size.p, size.v)
       IN  IF size.err # NoErr
           THEN /\ pos' = size.p
                /\ ReturnErr(Nil, size.err)
                /\ UNCHANGED <<maps, maxAlloc>>
           ELSE IF size.big \/ size.v > maxDataBlockSize
           THEN /\ pos' = size.p
                /\ ReturnErr(Nil, "block data exceeds size of reader buffer")
                /\ UNCHANGED <<maps, maxAlloc>>
           ELSE /\ maxAlloc' = Max(maxAlloc, size.v)
                /\ pos' = data.p
                /\ IF data.err # NoErr
                   THEN ReturnErr(Nil, data.err) /\ UNCHANGED maps
                   ELSE Return(Bytes(data.raw), maps)
    /\ UNCHANGED <<buf, maxDataBlockSize, handles, classes, stack, outcome>>
    /\ steps' = steps + 1
    /\ UNCHANGED refs
    /\ UNCHANGED rvars

\* a variant of parseClassDesc that reserves the handle of the descriptor and
\* leaves the slot empty
parseClassDescDeferredHandle ==
    /\ Dispatch("ClassDesc")
    /\ LET name == utf(pos + 1)
           uid == readString(name.p, serialVersionUIDLength, FALSE)
           flags == readUInt8(uid.p)
           fieldCount == readUInt16(flags.p)
           id == Len(classes) + 1
           cls == NewClazz(name.s, HexEncode(uid.s))
       IN  IF name.err # NoErr
           THEN /\ pos' = name.p
                /\ ReturnErr(Nil, name.err)
                /\ UNCHANGED <<handles, classes, maps, stack>>
           ELSE IF Len(name.s) < minClassNameLength
           THEN /\ pos' = name.p
                /\ Return(Nil, maps)
                /\ UNCHANGED <<handles, classes, stack>>
           ELSE IF uid.err # NoErr
           THEN /\ pos' = uid.p
                /\ ReturnErr(Nil, uid.err)
                /\ UNCHANGED <<handles, classes, maps, stack>>
           ELSE /\ handles' = Append(handles, Nil)
                /\ UNCHANGED maps
                /\ IF flags.err # NoErr
                   THEN /\ pos' = flags.p
                        /\ classes' = Append(classes, cls)
                        /\ ReturnErr(Nil, flags.err)
                        /\ UNCHANGED stack
                   ELSE /\ classes' = Append(classes,
                               [cls EXCEPT !.flags = flags.v,
                                           !.isEnum = (flags.v \div IsEnumBit) % 2 = 1])
                        /\ pos' = fieldCount.p
                        /\ IF fieldCount.err # NoErr
                           THEN ReturnErr(Nil, fieldCount.err) /\ UNCHANGED stack
                           ELSE /\ stack' = Push([f |-> "classDesc", cls |-> id,
                                                  n |-> fieldCount.v])
                                /\ ctl' = CtlRun
    /\ UNCHANGED <<buf, maxDataBlockSize, maxAlloc, outcome>>
    /\ steps' = steps + 1
    /\ UNCHANGED refs
    /\ UNCHANGED rvars

\* parseClassDesc up to the field loop: name, serialVersionUID, newHandle,
\* flags, field count. errors.Wrapf(err, "invalid class name") wraps a nil
\* err, so a name shorter than minClassNameLength returns (nil, nil)
parseClassDesc ==
    /\ Dispatch("ClassDesc")
    /\ LET name == utf(pos + 1)
           uid == readString(name.p, serialVersionUIDLength, FALSE)
           flags == readUInt8(uid.p)
           fieldCount == readUInt16(flags.p)
           id == Len(classes) + 1
           cls == NewClazz(name.s, HexEncode(uid.s))
       IN  IF name.err # NoErr
           THEN /\ pos' = name.p
                /\ ReturnErr(Nil, name.err)
                /\ UNCHANGED <<handles, classes, maps, stack>>
           ELSE IF Len(name.s) < minClassNameLength
           THEN /\ pos' = name.p
                /\ Return(Nil, maps)
                /\ UNCHANGED <<handles, classes, stack>>
           ELSE IF uid.err # NoErr
           THEN /\ pos' = uid.p
                /\ ReturnErr(Nil, uid.err)
                /\ UNCHANGED <<handles, classes, maps, stack>>
           ELSE /\ handles' = Append(handles, Cls(id))
                /\ UNCHANGED maps
                /\ IF flags.err # NoErr
                   THEN /\ pos' = flags.p
                        /\ classes' = Append(classes, cls)
                        /\ ReturnErr(Nil, flags.err)
                        /\ UNCHANGED stack
                   ELSE /\ classes' = Append(classes,
                               [cls EXCEPT !.flags = flags.v,
                                           !.isEnum = (flags.v \div IsEnumBit) % 2 = 1])
                        /\ pos' = fieldCount.p
                        /\ IF fieldCount.err # NoErr
                           THEN ReturnErr(Nil, fieldCount.err) /\ UNCHANGED stack
                           ELSE /\ stack' = Push([f |-> "classDesc", cls |-> id,
                                                  n |-> fieldCount.v])
                                /\ ctl' = CtlRun
    /\ UNCHANGED <<buf, maxDataBlockSize, maxAlloc, outcome>>
    /\ steps' = steps + 1
    /\ UNCHANGED refs
    /\ UNCHANGED rvars

\* one turn of the field loop of parseClassDesc: fieldDesc() up to its
\* content() call; after the last field, annotations(nil) is entered
fieldDesc ==
    /\ ctl.op = "run"
    /\ Top.f = "classDesc"
    /\ LET typeDec == readUInt8(pos)
           name == utf(typeDec.p)
       IN  IF Top.n = 0
           THEN /\ stack' = SetTop([f |-> "classAnns", cls |-> Top.cls, anns |-> <<>>])
                /\ ctl' = CtlContent("any")
                /\ UNCHANGED <<pos, classes>>
           ELSE IF typeDec.err # NoErr
           THEN /\ pos' = typeDec.p
                /\ ReturnErr(Nil, typeDec.err)
                /\ UNCHANGED <<stack, classes>>
           ELSE IF name.err # NoErr
           THEN /\ pos' = name.p
                /\ ReturnErr(Nil, name.err)
                /\ UNCHANGED <<stack, classes>>
           ELSE IF typeDec.v \in {TypeL, TypeArr}
           THEN /\ pos' = name.p
                /\ stack' = Push([f |-> "fieldClassName", cls |-> Top.cls,
                                  typeName |-> typeDec.v, name |-> name.s])
                /\ ctl' = CtlContent("any")
                /\ UNCHANGED classes
           ELSE /\ pos' = name.p
                /\ classes' = [classes EXCEPT ![Top.cls].fields =
                       Append(@, [typeName |-> typeDec.v, name |-> name.s,
                                  className |-> <<>>])]
                /\ stack' = SetTop([Top EXCEPT !.n = @ - 1])
                /\ ctl' = CtlRun
    /\ UNCHANGED <<buf, maxDataBlockSize, handles, maps, maxAlloc, outcome>>
    /\ steps' = steps + 1
    /\ UNCHANGED refs
    /\ UNCHANGED rvars

\* fieldDesc() after content() returned the class name of an L or [ field
fieldDescClassName ==
    /\ ctl.op = "ret" /\ ctl.err = NoErr
    /\ Top.f = "fieldClassName"
    /\ IF ctl.val.k # "str"
       THEN /\ ReturnErr(Nil, "unexpected field class name type")
            /\ UNCHANGED <<classes, stack>>
       ELSE /\ classes' = [classes EXCEPT ![Top.cls].fields =
                   Append(@, [typeName |-> Top.typeName, name |-> Top.name,
                              className |-> ctl.val.s])]
            /\ stack' = [Pop EXCEPT ![Len(stack) - 1].n = @ - 1]
            /\ ctl' = CtlRun
    /\ UNCHANGED <<buf, pos, maxDataBlockSize, handles, maps, maxAlloc, outcome>>
    /\ steps' = steps + 1
    /\ UNCHANGED refs
    /\ UNCHANGED rvars

\* annotations(nil) of parseClassDesc: one turn of its loop, then classDesc()
\* for the superclass
classAnnotation ==
    /\ ctl.op = "ret" /\ ctl.err = NoErr
    /\ Top.f = "classAnns"
    /\ IF ctl.val = EndBlock
       THEN /\ classes' = [classes EXCEPT ![Top.cls].annotations = Top.anns]
            /\ stack' = SetTop([f |-> "classSuper", cls |-> Top.cls])
            /\ ctl' = CtlContent("clazz")
       ELSE /\ stack' = SetTop([Top EXCEPT !.anns = Append(@, ctl.val)])
            /\ ctl' = CtlContent("any")
            /\ UNCHANGED classes
    /\ UNCHANGED <<buf, pos, maxDataBlockSize, handles, maps, maxAlloc, outcome>>
    /\ steps' = steps + 1
    /\ UNCHANGED refs
    /\ UNCHANGED rvars

\* parseClassDesc after classDesc() returned the superclass
classSuper ==
    /\ ctl.op = "ret" /\ ctl.err = NoErr
    /\ Top.f = "classSuper"
    /\ LET cd == ClassDescOf(ctl.val) IN
       IF cd.err # NoErr
       THEN /\ ReturnErr(Nil, cd.err)
            /\ UNCHANGED <<classes, stack, maps>>
       ELSE /\ classes' = [classes EXCEPT ![Top.cls].super = cd.id]
            /\ stack' = Pop
            /\ Return(Cls(Top.cls), maps)
    /\ UNCHANGED <<buf, pos, maxDataBlockSize, handles, maxAlloc, outcome>>
    /\ steps' = steps + 1
    /\ UNCHANGED refs
    /\ UNCHANGED rvars

parseClass ==
    /\ Dispatch("Class")
    /\ pos' = pos + 1
    /\ stack' = Push([f |-> "parseClass"])
    /\ ctl' = CtlContent("clazz")
    /\ UNCHANGED <<buf, maxDataBlockSize, handles, classes, maps, maxAlloc, outcome>>
    /\ steps' = steps + 1
    /\ UNCHANGED refs
    /\ UNCHANGED rvars

\* parseClass after classDesc(): cd holds a *clazz, nil or not, so the handle
\* and the value returned are never the nil interface
parseClassHandle ==
    /\ ctl.op = "ret" /\ ctl.err = NoErr
    /\ Top.f = "parseClass"
    /\ LET cd == ClassDescOf(ctl.val) IN
       IF cd.err # NoErr
       THEN /\ ReturnErr(Cls(0), cd.err)
            /\ UNCHANGED <<handles, stack, maps>>
       ELSE /\ handles' = Append(handles, Cls(cd.id))
            /\ stack' = Pop
            /\ Return(Cls(cd.id), maps)
    /\ UNCHANGED <<buf, pos, maxDataBlockSize, classes, maxAlloc, outcome>>
    /\ steps' = steps + 1
    /\ UNCHANGED refs
    /\ UNCHANGED rvars

parseArray ==
    /\ Dispatch("Array")
    /\ pos' = pos + 1
    /\ stack' = Push([f |-> "arrayClass"])
    /\ ctl' = CtlContent("clazz")
    /\ UNCHANGED <<buf, maxDataBlockSize, handles, classes, maps, maxAlloc, outcome>>
    /\ steps' = steps + 1
    /\ UNCHANGED refs
    /\ UNCHANGED rvars

\* parseArray after classDesc(): the handle, the int32 size, the handler of
\* cls.name[1], make([]interface{}, int(size)), which panics for size < 0
parseArraySize ==
    /\ ctl.op = "ret" /\ ctl.err = NoErr
    /\ Top.f = "arrayClass"
    /\ LET cd == ClassDescOf(ctl.val)
           res == Len(maps) + 1
           size == readInt32(pos)
           withClass == Append(maps, <<Entry(KeyClass, Cls(cd.id))>>)
           withLength == Append(maps, <<Entry(KeyClass, Cls(cd.id)),
                                        Entry(KeyLength, Num("I", Slice(buf, pos, 4)))>>)
       IN  IF cd.err # NoErr
           THEN /\ ReturnErr(Nil, cd.err)
                /\ UNCHANGED <<pos, handles, maps, stack, maxAlloc, outcome>>
           ELSE /\ handles' = Append(handles, MapRef(res))
                /\ pos' = size.p
                /\ IF size.err # NoErr
                   THEN /\ maps' = withClass
                        /\ ReturnErr(Nil, size.err)
                        /\ UNCHANGED <<stack, maxAlloc, outcome>>
                   ELSE IF cd.id = 0
                   THEN /\ stack' = Pop
                        /\ Return(Nil, withLength)
                        /\ UNCHANGED <<maxAlloc, outcome>>
                   ELSE IF classes[cd.id].name[2] \notin primitiveHandlers
                   THEN /\ maps' = withLength
                        /\ ReturnErr(Nil, "unknown field type")
                        /\ UNCHANGED <<stack, maxAlloc, outcome>>
                   ELSE IF size.v < 0
                   THEN /\ maps' = withLength
                        /\ Panicked("makeslice: len out of range")
                        /\ UNCHANGED maxAlloc
                   ELSE /\ maps' = withLength
                        /\ maxAlloc' = Max(maxAlloc, size.v)
                        /\ stack' = SetTop([f |-> "arrayElems",
                                            typeName |-> classes[cd.id].name[2],
                                            size |-> size.v, array |-> <<>>])
                        /\ ctl' = CtlRun
                        /\ UNCHANGED outcome
    /\ UNCHANGED <<buf, maxDataBlockSize, classes>>
    /\ steps' = steps + 1
    /\ UNCHANGED refs
    /\ UNCHANGED rvars

\* one turn of the element loop of parseArray, up to the content() call of an
\* L or [ element; after the last element the array is returned
arrayElement ==
    /\ ctl.op = "run"
    /\ Top.f = "arrayElems"
    /\ IF Len(Top.array) = Top.size
       THEN /\ stack' = Pop
            /\ Return(List(Top.array), maps)
            /\ UNCHANGED pos
       ELSE IF Top.typeName \in {TypeL, TypeArr}
       THEN /\ ctl' = CtlContent("any")
            /\ UNCHANGED <<pos, stack, maps>>
       ELSE LET r == PrimRead(Top.typeName, pos) IN
            /\ pos' = r.p
            /\ UNCHANGED maps
            /\ IF r.err # NoErr
               THEN ReturnErr(Nil, r.err) /\ UNCHANGED stack
               ELSE /\ stack' = SetTop([Top EXCEPT !.array = Append(@, r.val)])
                    /\ ctl' = CtlRun
    /\ UNCHANGED <<buf, maxDataBlockSize, handles, classes, maxAlloc, outcome>>
    /\ steps' = steps + 1
    /\ UNCHANGED refs
    /\ UNCHANGED rvars

\* the element loop after content() returned an L or [ element
arrayElementContent ==
    /\ ctl.op = "ret" /\ ctl.err = NoErr
    /\ Top.f = "arrayElems"
    /\ stack' = SetTop([Top EXCEPT !.array = Append(@, ctl.val)])
    /\ ctl' = CtlRun
    /\ UNCHANGED <<buf, pos, maxDataBlockSize, handles, classes, maps, maxAlloc, outcome>>
    /\ steps' = steps + 1
    /\ UNCHANGED refs
    /\ UNCHANGED rvars

parseEnum ==
    /\ Dispatch("Enum")
    /\ pos' = pos + 1
    /\ stack' = Push([f |-> "enumClass"])
    /\ ctl' = CtlContent("clazz")
    /\ UNCHANGED <<buf, maxDataBlockSize, handles, classes, maps, maxAlloc, outcome>>
    /\ steps' = steps + 1
    /\ UNCHANGED refs
    /\ UNCHANGED rvars

\* parseEnum after classDesc(): newDeferredHandle, then content() for the constant
parseEnumDeferred ==
    /\ ctl.op = "ret" /\ ctl.err = NoErr
    /\ Top.f = "enumClass"
    /\ LET cd == ClassDescOf(ctl.val) IN
       IF cd.err # NoErr
       THEN /\ ReturnErr(Nil, cd.err)
            /\ UNCHANGED <<handles, stack>>
       ELSE /\ handles' = Append(handles, Nil)
            /\ stack' = SetTop([f |-> "enumConst", cls |-> cd.id,
                                idx |-> Len(handles) + 1])
            /\ ctl' = CtlContent("any")
    /\ UNCHANGED <<buf, pos, maxDataBlockSize, classes, maps, maxAlloc, outcome>>
    /\ steps' = steps + 1
    /\ UNCHANGED refs
    /\ UNCHANGED rvars

\* a variant of parseEnumConstant that sets the slot before the deferred one
parseEnumConstantWrongSlot ==
    /\ ctl.op = "ret" /\ ctl.err = NoErr
    /\ Top.f = "enumConst"
    /\ LET res == Len(maps) + 1 IN
       /\ handles' = [handles EXCEPT ![Top.idx - 1] = MapRef(res)]
       /\ stack' = Pop
       /\ Return(MapRef(res),
                 Append(maps, <<Entry(OBJECT_VALUE_NAME, ctl.val),
                                Entry(KeyClass, Cls(Top.cls))>>))
    /\ UNCHANGED <<buf, pos, maxDataBlockSize, classes, maxAlloc, outcome>>
    /\ steps' = steps + 1
    /\ UNCHANGED refs
    /\ UNCHANGED rvars

\* parseEnum after content() returned the constant: the deferred handle is set
parseEnumConstant ==
    /\ ctl.op = "ret" /\ ctl.err = NoErr
    /\ Top.f = "enumConst"
    /\ LET res == Len(maps) + 1 IN
       /\ handles' = [handles EXCEPT ![Top.idx] = MapRef(res)]
       /\ stack' = Pop
       /\ Return(MapRef(res),
                 Append(maps, <<Entry(OBJECT_VALUE_NAME, ctl.val),
                                Entry(KeyClass, Cls(Top.cls))>>))
    /\ UNCHANGED <<buf, pos, maxDataBlockSize, classes, maxAlloc, outcome>>
    /\ steps' = steps + 1
    /\ UNCHANGED refs
    /\ UNCHANGED rvars

parseObject ==
    /\ Dispatch("Object")
    /\ pos' = pos + 1
    /\ stack' = Push([f |-> "objectClass"])
    /\ ctl' = CtlContent("clazz")
    /\ UNCHANGED <<buf, maxDataBlockSize, handles, classes, maps, maxAlloc, outcome>>
    /\ steps' = steps + 1
    /\ UNCHANGED refs
    /\ UNCHANGED rvars

\* parseObject after classDesc(): objMap, newDeferredHandle, and the descent
\* of recursiveClassData along cls.super
parseObjectDeferred ==
    /\ ctl.op = "ret" /\ ctl.err = NoErr
    /\ Top.f = "objectClass"
    /\ LET cd == ClassDescOf(ctl.val)
           extends == Len(maps) + 1
           objMap == Len(maps) + 2
       IN  IF cd.err # NoErr
           THEN /\ ReturnErr(Nil, cd.err)
                /\ UNCHANGED <<handles, maps, stack>>
           ELSE /\ maps' = maps \o << <<>>,
                                      <<Entry(KeyClass, Cls(cd.id)),
                                        Entry(KeyExtends, MapRef(extends))>> >>
                /\ handles' = Append(handles, Nil)
                /\ stack' = SetTop([f |-> "object", obj |-> objMap,
                                    idx |-> Len(handles) + 1,
                                    chain |-> RecursiveOrder(cd.id, {}),
                                    phase |-> "class", fi |-> 0, vals |-> 0,
                                    anns |-> <<>>])
                /\ ctl' = CtlRun
    /\ UNCHANGED <<buf, pos, maxDataBlockSize, classes, maxAlloc, outcome>>
    /\ steps' = steps + 1
    /\ UNCHANGED refs
    /\ UNCHANGED rvars

\* the class whose data the object frame on top of the stack is reading
CurClass == classes[Head(Top.chain)]
CurFlags == CurClass.flags % (FLAGS_MASK + 1)

\* recursiveClassData for the next class of the chain: the "extends" check,
\* then classData up to values() or annotations()
classData ==
    /\ ctl.op = "run"
    /\ Top.f = "object" /\ Top.phase = "class" /\ Top.chain # <<>>
    /\ IF MapGet(maps[Top.obj], K(KeyExtends)).k # "map"
       THEN /\ ReturnErr(Nil, "unexpected extends value")
            /\ UNCHANGED <<maps, stack>>
       ELSE IF CurFlags = ScExternalizeWithBlockData
       THEN /\ ReturnErr(Nil, "unable to parse version 1 external content")
            /\ UNCHANGED <<maps, stack>>
       ELSE IF CurFlags \notin {ScSerializableWithoutWriteMethod,
                               ScSerializableWithWriteMethod,
                               ScExternalizeWithoutBlockData}
       THEN /\ ReturnErr(Nil, "unable to deserialize class with flags")
            /\ UNCHANGED <<maps, stack>>
       ELSE /\ maps' = Append(maps, <<>>)
            /\ IF CurFlags = ScExternalizeWithoutBlockData
               THEN /\ stack' = SetTop([Top EXCEPT !.phase = "anns",
                                                   !.vals = Len(maps) + 1,
                                                   !.anns = <<>>])
                    /\ ctl' = CtlContent("any")
               ELSE /\ stack' = SetTop([Top EXCEPT !.phase = "values",
                                                   !.vals = Len(maps) + 1,
                                                   !.fi = 1, !.anns = <<>>])
                    /\ ctl' = CtlRun
    /\ UNCHANGED <<buf, pos, maxDataBlockSize, handles, classes, maxAlloc, outcome>>
    /\ steps' = steps + 1
    /\ UNCHANGED refs
    /\ UNCHANGED rvars

\* the end of classData and of recursiveClassData for the current class: the
\* post processor of a known signature, extends[cls.name] = fields, and the
\* fields copied into obj. fr is the object frame, mp the heap, data the
\* annotations read
ClassDataEnd(fr, mp, data) ==
    LET cls == classes[Head(fr.chain)]
        pp == ApplyPostProc(PostProcOf(cls), mp[fr.vals], data, Len(mp) + 1, mp)
        mp1 == [mp EXCEPT ![fr.vals] = pp.fields] \o pp.newmap
        ext == MapGet(mp1[fr.obj], K(KeyExtends)).id
        mp2 == [mp1 EXCEPT ![ext] = MapPut(@, K(cls.name), MapRef(fr.vals))]
        mp3 == [mp2 EXCEPT ![fr.obj] = MapMerge(@, mp2[fr.vals], 1)]
    IN  IF pp.panic
        THEN /\ Panicked(pp.err)
             /\ maps' = mp
        ELSE IF pp.err # NoErr
        THEN /\ ReturnErr(Nil, pp.err)
             /\ maps' = mp
             /\ UNCHANGED <<stack, outcome>>
        ELSE /\ maps' = mp3
             /\ stack' = SetTop([fr EXCEPT !.chain = Tail(@), !.phase = "class"])
             /\ ctl' = CtlRun
             /\ UNCHANGED outcome

\* one turn of the field loop of values(), up to the content() call of an L or
\* [ field; after the last field classData goes on
values ==
    /\ ctl.op = "run"
    /\ Top.f = "object" /\ Top.phase = "values"
    /\ IF Top.fi > Len(CurClass.fields)
       THEN IF CurFlags = ScSerializableWithWriteMethod
            THEN /\ stack' = SetTop([Top EXCEPT !.phase = "anns"])
                 /\ ctl' = CtlContent("any")
                 /\ UNCHANGED <<pos, maps, outcome>>
            ELSE /\ ClassDataEnd(Top, maps, <<>>)
                 /\ UNCHANGED pos
       ELSE LET field == CurClass.fields[Top.fi] IN
            IF field.typeName \notin primitiveHandlers
            THEN /\ ReturnErr(Nil, "unknown field type")
                 /\ UNCHANGED <<pos, maps, stack, outcome>>
            ELSE IF field.typeName \in {TypeL, TypeArr}
            THEN /\ ctl' = CtlContent("any")
                 /\ UNCHANGED <<pos, maps, stack, outcome>>
            ELSE LET r == PrimRead(field.typeName, pos) IN
                 /\ pos' = r.p
                 /\ UNCHANGED outcome
                 /\ IF r.err # NoErr
                    THEN /\ ReturnErr(Nil, r.err)
                         /\ maps' = [maps EXCEPT ![Top.vals] = MapPut(@, K(field.name), Nil)]
                         /\ UNCHANGED stack
                    ELSE /\ maps' = [maps EXCEPT ![Top.vals] = MapPut(@, K(field.name), r.val)]
                         /\ stack' = SetTop([Top EXCEPT !.fi = @ + 1])
                         /\ ctl' = CtlRun
    /\ UNCHANGED <<buf, maxDataBlockSize, handles, classes, maxAlloc>>
    /\ steps' = steps + 1
    /\ UNCHANGED refs
    /\ UNCHANGED rvars

\* values() after content() returned the value of an L or [ field
valuesContent ==
    /\ ctl.op = "ret" /\ ctl.err = NoErr
    /\ Top.f = "object" /\ Top.phase = "values"
    /\ maps' = [maps EXCEPT ![Top.vals] =
                   MapPut(@, K(CurClass.fields[Top.fi].name), ctl.val)]
    /\ stack' = SetTop([Top EXCEPT !.fi = @ + 1])
    /\ ctl' = CtlRun
    /\ UNCHANGED <<buf, pos, maxDataBlockSize, handles, classes, maxAlloc, outcome>>
    /\ steps' = steps + 1
    /\ UNCHANGED refs
    /\ UNCHANGED rvars

\* annotations(nil) of classData: one turn of its loop; at the end block
\* data["@"] = anns and classData goes on
dataAnnotation ==
    /\ ctl.op = "ret" /\ ctl.err = NoErr
    /\ Top.f = "object" /\ Top.phase = "anns"
    /\ IF ctl.val = EndBlock
       THEN ClassDataEnd(Top,
                [maps EXCEPT ![Top.vals] = MapPut(@, K(KeyAt), List(Top.anns))],
                Top.anns)
       ELSE /\ stack' = SetTop([Top EXCEPT !.anns = Append(@, ctl.val)])
            /\ ctl' = CtlContent("any")
            /\ UNCHANGED <<maps, outcome>>
    /\ UNCHANGED <<buf, pos, maxDataBlockSize, handles, classes, maxAlloc>>
    /\ steps' = steps + 1
    /\ UNCHANGED refs
    /\ UNCHANGED rvars

\* parseObject after recursiveClassData: the deferred handle is set
parseObjectHandle ==
    /\ ctl.op = "run"
    /\ Top.f = "object" /\ Top.phase = "class" /\ Top.chain = <<>>
    /\ handles' = [handles EXCEPT ![Top.idx] = MapRef(Top.obj)]
    /\ stack' = Pop
    /\ Return(MapRef(Top.obj), maps)
    /\ UNCHANGED <<buf, pos, maxDataBlockSize, classes, maxAlloc, outcome>>
    /\ steps' = steps + 1
    /\ UNCHANGED refs
    /\ UNCHANGED rvars

\* the value the top-level content() returns next to an error: what the
\* parse function it dispatched to holds in its result variable
FailedContent ==
    IF Len(stack) < 2 THEN ctl.val
    ELSE IF stack[2].f = "parseClass" THEN Cls(0)
    ELSE Nil

\* an error returns through every caller (each wraps and returns it) to
\* ParseSerializedObject, which returns it with the content
Fail ==
    /\ ctl.op = "ret" /\ ctl.err # NoErr
    /\ Returned(FailedContent,
                IF ctl.err = "EOF" THEN "premature end of input" ELSE ctl.err)
    /\ UNCHANGED <<buf, pos, maxDataBlockSize, handles, classes, maps, maxAlloc>>
    /\ steps' = steps + 1
    /\ UNCHANGED refs
    /\ UNCHANGED rvars

\* a variant of ParseSerializedObjectEnd that does not call end()
ParseSerializedObjectEndUnchecked ==
    /\ ctl.op = "ret" /\ ctl.err = NoErr
    /\ Top.f = "top"
    /\ Returned(ctl.val, NoErr)
    /\ UNCHANGED <<buf, pos, maxDataBlockSize, handles, classes, maps, maxAlloc>>
    /\ steps' = steps + 1
    /\ UNCHANGED refs
    /\ UNCHANGED rvars

\* ParseSerializedObject after the top-level content(): end()
ParseSerializedObjectEnd ==
    /\ ctl.op = "ret" /\ ctl.err = NoErr
    /\ Top.f = "top"
    /\ Returned(ctl.val,
                IF pos < Len(buf) THEN "object already parsed but there is more data"
                ELSE NoErr)
    /\ UNCHANGED <<buf, pos, maxDataBlockSize, handles, classes, maps, maxAlloc>>
    /\ steps' = steps + 1
    /\ UNCHANGED refs
    /\ UNCHANGED rvars

----------------------------------------------------------------------------
(* deserializer.go: deserializePayload                                      *)
(* A []byte is [isNil, b]: nil and the empty slice differ only in isNil.    *)
(* The decoders of other packages (xml2json, avro, protobuf, msgpack,       *)
(* smile) and the services behind them may succeed or fail on any payload   *)
(* that reaches them: deserializePayload is the set of results the code can *)
(* return, one per way these calls can end.  The field probes of a result   *)
(* records, in the order of the calls, which decode steps ran and how each  *)
(* ended.                                                                   *)

NilBytes == [isNil |-> TRUE, b |-> <<>>]
BytesOf(b) == [isNil |-> FALSE, b |-> b]

\* the JSON text a decoder of another package produces: its content is not modelled
DecodedJSON == BytesOf(<<123, 125>>)

NoSchemaID == [big |-> FALSE, v |-> 0]

Probe(name, ok) == [probe |-> name, ok |-> ok]

\* a variant of NewDeserializedPayload that reports an empty payload as null
NewDeserializedPayloadEmptyIsNull(payload, normalized, encoding, object, schemaID, probes) ==
    [isNil |-> FALSE,
     Payload |-> [Payload |-> normalized, RecognizedEncoding |-> encoding],
     IsPayloadNull |-> Len(payload.b) = 0,
     Object |-> object,
     RecognizedEncoding |-> encoding,
     SchemaID |-> schemaID,
     Size |-> Len(payload.b),
     probes |-> probes]

\* &deserializedPayload{...}
NewDeserializedPayload(payload, normalized, encoding, object, schemaID, probes) ==
    [isNil |-> FALSE,
     Payload |-> [Payload |-> normalized, RecognizedEncoding |-> encoding],
     IsPayloadNull |-> payload.isNil,
     Object |-> object,
     RecognizedEncoding |-> encoding,
     SchemaID |-> schemaID,
     Size |-> Len(payload.b),
     probes |-> probes]

\* a nil *deserializedPayload
NilPayload == [isNil |-> TRUE]

\* a variant of containsControlChars that looks for the bytes up to 31 only
containsControlCharsLow(b) ==
    \E i \in 1..Len(b) : b[i] <= 31

containsControlChars(b) ==
    \E i \in 1..Len(b) : b[i] <= 31 \/ (b[i] >= 127 /\ b[i] <= 159)

\* a variant of BinaryStep that gives up on a payload no step recognised
BinaryStepGivesUp(payload, log) == {NilPayload}

\* Anything else is considered as binary content
BinaryStep(payload, log) ==
    {NewDeserializedPayload(payload, payload, "binary", "payload", NoSchemaID,
                            Append(log, Probe("binary", TRUE)))}

\* a variant of Utf8Step whose normalized payload is the payload without its
\* leading whitespace
Utf8StepTrimmed(payload, log) ==
    IF Utf8Valid(payload.b)
    THEN IF containsControlChars(payload.b)
         THEN {NewDeserializedPayload(payload, BytesOf(TrimLeft(payload.b)),
                                      "utf8WithControlChars", "payload", NoSchemaID,
                                      Append(log, Probe("utf8", TRUE)))}
         ELSE {NewDeserializedPayload(payload, BytesOf(TrimLeft(payload.b)), "text",
                                      "string(payload)", NoSchemaID,
                                      Append(log, Probe("utf8", TRUE)))}
    ELSE BinaryStep(payload, Append(log, Probe("utf8", FALSE)))

\* 8. Test for UTF-8 validity
Utf8Step(payload, log) ==
    IF Utf8Valid(payload.b)
    THEN IF containsControlChars(payload.b)
         THEN {NewDeserializedPayload(payload, payload, "utf8WithControlChars",
                                      "payload", NoSchemaID,
                                      Append(log, Probe("utf8", TRUE)))}
         ELSE {NewDeserializedPayload(payload, payload, "text", "string(payload)",
                                      NoSchemaID, Append(log, Probe("utf8", TRUE)))}
    ELSE BinaryStep(payload, Append(log, Probe("utf8", FALSE)))

\* 7. Test for valid Smile
startsWithSmile(payload) ==
    Len(payload.b) > 3 /\ payload.b[1] = 58 /\ payload.b[2] = 41 /\ payload.b[3] = 10

SmileStep(payload, log) ==
    IF startsWithSmile(payload)
    THEN {NewDeserializedPayload(payload, DecodedJSON, "smile", "obj", NoSchemaID,
                                 Append(log, Probe("smile", TRUE)))}
         \cup Utf8Step(payload, Append(log, Probe("smile", FALSE)))
    ELSE Utf8Step(payload, log)

\* MsgPackService.IsTopicAllowed
IsTopicAllowed(svc, topicName) == topicName \in svc.allowedTopics

\* a variant of MsgPackGate that does not ask whether the topic is allowed
MsgPackGateAnyTopic(d, topicName) == ~d.MsgPackService.isNil

\* 6. Test for MessagePack (only if enabled and topic allowed)
MsgPackGate(d, topicName) ==
    ~d.MsgPackService.isNil /\ IsTopicAllowed(d.MsgPackService, topicName)

MsgPackStep(d, payload, topicName, log) ==
    IF MsgPackGate(d, topicName)
    THEN {NewDeserializedPayload(payload, DecodedJSON, "msgpack", "string(payload)",
                                 NoSchemaID, Append(log, Probe("msgpack", TRUE)))}
         \cup SmileStep(payload, Append(log, Probe("msgpack", FALSE)))
    ELSE SmileStep(payload, log)

\* 5. Test for Protobuf
ProtobufStep(d, payload, topicName, recordType, log) ==
    IF ~d.ProtoService.isNil
    THEN {NewDeserializedPayload(payload, DecodedJSON, "protobuf", "native",
                                 [big |-> FALSE, v |-> id],
                                 Append(log, Probe("protobuf", TRUE)))
             : id \in d.ProtoService.schemaIDs}
         \cup MsgPackStep(d, payload, topicName, Append(log, Probe("protobuf", FALSE)))
    ELSE MsgPackStep(d, payload, topicName, log)

\* binary.BigEndian.Uint32: big is TRUE for values of 2^31 and more, v holds
\* the low 31 bits
BigEndianUint32(b) == [big |-> b[1] >= 128, v |-> Low31(b)]

\* the schema registry wire format: a zero byte, the schema id, the message
IsFramed(d, payload) ==
    ~d.SchemaService.isNil /\ Len(payload.b) > 5 /\ payload.b[1] = 0

\* a variant of AvroStep in which the schema id read for a failed attempt
\* stays in the result of the later steps
AvroStepLeaksSchemaID(d, payload, topicName, recordType, log) ==
    IF IsFramed(d, payload)
    THEN {NewDeserializedPayload(payload, DecodedJSON, "avro", "obj",
                                 BigEndianUint32(SubSeq(payload.b, 2, 5)),
                                 Append(log, Probe("avro", TRUE)))}
         \cup {[r EXCEPT !.SchemaID = BigEndianUint32(SubSeq(payload.b, 2, 5))]
                 : r \in ProtobufStep(d, payload, topicName, recordType,
                                      Append(log, Probe("avro", FALSE)))}
    ELSE ProtobufStep(d, payload, topicName, recordType, log)

\* 4. Test for Avro
AvroStep(d, payload, topicName, recordType, log) ==
    IF IsFramed(d, payload)
    THEN {NewDeserializedPayload(payload, DecodedJSON, "avro", "obj",
                                 BigEndianUint32(SubSeq(payload.b, 2, 5)),
                                 Append(log, Probe("avro", TRUE)))}
         \cup ProtobufStep(d, payload, topicName, recordType,
                           Append(log, Probe("avro", FALSE)))
    ELSE ProtobufStep(d, payload, topicName, recordType, log)

\* 3. Test for valid XML
startsWithXML(trimmed) == trimmed[1] = 60

\* a variant of XMLStep that goes on to the later steps after XML has decoded
XMLStepGoesOn(d, payload, trimmed, topicName, recordType, log) ==
    IF startsWithXML(trimmed)
    THEN {NewDeserializedPayload(payload, DecodedJSON, "xml", "obj", NoSchemaID, r.probes)
            : r \in AvroStep(d, payload, topicName, recordType,
                             Append(log, Probe("xml", TRUE)))}
         \cup AvroStep(d, payload, topicName, recordType,
                       Append(log, Probe("xml", FALSE)))
    ELSE AvroStep(d, payload, topicName, recordType, log)

XMLStep(d, payload, trimmed, topicName, recordType, log) ==
    IF startsWithXML(trimmed)
    THEN {NewDeserializedPayload(payload, DecodedJSON, "xml", "obj", NoSchemaID,
                                 Append(log, Probe("xml", TRUE)))}
         \cup AvroStep(d, payload, topicName, recordType,
                       Append(log, Probe("xml", FALSE)))
    ELSE AvroStep(d, payload, topicName, recordType, log)

startsWithJSON(trimmed) == trimmed[1] = 91 \/ trimmed[1] = 123

\* 2. Test for json schema
SchemaJSONStep(d, payload, trimmed, topicName, recordType, log) ==
    IF IsFramed(d, payload)
       /\ startsWithJSON(SubSeq(payload.b, 6, Len(payload.b)))
    THEN IF JsonUnmarshalOk(SubSeq(payload.b, 6, Len(payload.b)))
         THEN {NewDeserializedPayload(payload,
                                      BytesOf(SubSeq(payload.b, 6, Len(payload.b))),
                                      "json", "obj",
                                      BigEndianUint32(SubSeq(payload.b, 2, 5)),
                                      Append(log, Probe("schemaJson", TRUE)))}
         ELSE XMLStep(d, payload, trimmed, topicName, recordType,
                      Append(log, Probe("schemaJson", FALSE)))
    ELSE XMLStep(d, payload, trimmed, topicName, recordType, log)

\* a variant of JSONStep whose normalized payload leaves out the first byte
\* of the trimmed payload
JSONStepDropsBracket(d, payload, trimmed, topicName, recordType, log) ==
    IF startsWithJSON(trimmed)
    THEN IF JsonUnmarshalOk(payload.b)
         THEN {NewDeserializedPayload(payload, BytesOf(Tail(trimmed)), "json", "obj",
                                      NoSchemaID, Append(log, Probe("json", TRUE)))}
         ELSE SchemaJSONStep(d, payload, trimmed, topicName, recordType,
                             Append(log, Probe("json", FALSE)))
    ELSE SchemaJSONStep(d, payload, trimmed, topicName, recordType, log)

\* 1. Test for valid JSON
JSONStep(d, payload, trimmed, topicName, recordType, log) ==
    IF startsWithJSON(trimmed)
    THEN IF JsonUnmarshalOk(payload.b)
         THEN {NewDeserializedPayload(payload, BytesOf(trimmed), "json", "obj",
                                      NoSchemaID, Append(log, Probe("json", TRUE)))}
         ELSE SchemaJSONStep(d, payload, trimmed, topicName, recordType,
                             Append(log, Probe("json", FALSE)))
    ELSE SchemaJSONStep(d, payload, trimmed, topicName, recordType, log)

\* the results deserializePayload(payload, topicName, recordType) can return
deserializePayload(d, payload, topicName, recordType) ==
    IF Len(payload.b) = 0
    THEN {NewDeserializedPayload(payload, payload, "none", "nil", NoSchemaID, <<>>)}
    ELSE IF Len(TrimLeft(payload.b)) = 0
    THEN {NewDeserializedPayload(payload, payload, "text", "string(payload)",
                                 NoSchemaID, <<>>)}
    ELSE JSONStep(d, payload, TrimLeft(payload.b), topicName, recordType, <<>>)

----------------------------------------------------------------------------
(* deserializer.go: deserializeConsumerOffset                               *)
(* ReadFrom of the kmsg structures is code of another package: it may       *)
(* succeed or fail on any bytes it is given.                                *)

\* (&kbin.Reader{Src: record.Key}).Int16(): big-endian, two's complement
Int16Of(b) ==
    IF b[1] >= 128 THEN b[1] * 256 + b[2] - 65536 ELSE b[1] * 256 + b[2]

\* the payload the codec builds for a structure that decoded
ConsumerOffsetsPayload(raw, structure, object) ==
    [isNil |-> FALSE,
     Payload |-> [Payload |-> DecodedJSON, RecognizedEncoding |-> "consumerOffsets"],
     IsPayloadNull |-> FALSE,
     Object |-> object,
     RecognizedEncoding |-> "consumerOffsets",
     SchemaID |-> NoSchemaID,
     Size |-> Len(raw.b),
     probes |-> <<Probe(structure, TRUE)>>]

\* Tombstone
Tombstone(value) ==
    [isNil |-> FALSE,
     Payload |-> [Payload |-> value, RecognizedEncoding |-> "none"],
     IsPayloadNull |-> FALSE,
     Object |-> "\"\"",
     RecognizedEncoding |-> "none",
     SchemaID |-> NoSchemaID,
     Size |-> Len(value.b),
     probes |-> <<>>]

NilHeaders == [isNil |-> TRUE, m |-> <<>>]

NilRecord == [isNil |-> TRUE]

NewDeserializedRecord(key, value, headers) ==
    [isNil |-> FALSE, Key |-> key, Value |-> value, Headers |-> headers]

\* the (deserializedKey, deserializedVal) pairs the switch can leave
OffsetParts(rec, keyStructure, keyObject, valueStructure, valueObject) ==
    LET keys == {NilPayload, ConsumerOffsetsPayload(rec.Key, keyStructure, keyObject)}
        vals == IF rec.Value.isNil THEN {NilPayload}
                ELSE {NilPayload,
                      ConsumerOffsetsPayload(rec.Value, valueStructure, valueObject)}
    IN  {[err |-> NoErr,
          rec |-> NewDeserializedRecord(
                      k, IF v.isNil THEN Tombstone(rec.Value) ELSE v, NilHeaders)]
            : k \in keys, v \in vals}

\* a variant of deserializeConsumerOffset that reads version 1 as group metadata
deserializeConsumerOffsetVersion1(rec) ==
    IF Len(rec.Key.b) < 2
    THEN {[err |-> "offset commit key is supposed to be at least 2 bytes long",
           rec |-> NilRecord]}
    ELSE LET messageVer == Int16Of(rec.Key.b) IN
         IF messageVer = 0
         THEN OffsetParts(rec, "OffsetCommitKey", "offsetCommitKey",
                          "OffsetCommitValue", "val")
         ELSE IF messageVer \in {1, 2}
         THEN OffsetParts(rec, "GroupMetadataKey", "metadataKey",
                          "GroupMetadataValue", "metadataValue")
         ELSE {[err |-> "unknown message version", rec |-> NilRecord]}

\* the (rec, err) pairs deserializeConsumerOffset(record) can return
deserializeConsumerOffset(rec) ==
    IF Len(rec.Key.b) < 2
    THEN {[err |-> "offset commit key is supposed to be at least 2 bytes long",
           rec |-> NilRecord]}
    ELSE LET messageVer == Int16Of(rec.Key.b) IN
         IF messageVer \in {0, 1}
         THEN OffsetParts(rec, "OffsetCommitKey", "offsetCommitKey",
                          "OffsetCommitValue", "val")
         ELSE IF messageVer = 2
         THEN OffsetParts(rec, "GroupMetadataKey", "metadataKey",
                          "GroupMetadataValue", "metadataValue")
         ELSE {[err |-> "unknown message version", rec |-> NilRecord]}

----------------------------------------------------------------------------
(* deserializer.go: DeserializeRecord(record, parseJavaToJson)              *)
(* pc: "call"     DeserializeRecord is about to be called                   *)
(*     "marshal"  inside ParseBase64ToMarshal(record.Value), line 115       *)
(*     "payloads" at line 122                                               *)
(*     "object"   inside ParseBase64ToObject(record.Value), line 134        *)
(*     "done"     DeserializeRecord has returned result                     *)
(*     "panic"    a panic of the parser has unwound DeserializeRecord       *)
(*     "none"     no record: ParseSerializedObject is called on its own     *)

OffsetsTopic == "__consumer_offsets"

\* the topics whose values are not converted from Java before the payloads
JavaSkippedTopics == {"event-in", "event-out", "online-connector", "online-connector-out"}

\* the parser at rest: no call of ParseSerializedObject is under way
ParserIdle ==
    /\ buf' = <<>>
    /\ pos' = 0
    /\ maxDataBlockSize' = 0
    /\ handles' = <<>>
    /\ classes' = <<>>
    /\ maps' = <<>>
    /\ stack' = <<>>
    /\ ctl' = CtlHalt
    /\ maxAlloc' = 0
    /\ outcome' = NoOutcome
    /\ steps' = 0
    /\ refs' = <<>>

\* NewSerializedObjectParser(bytes.NewReader(b), SetMaxDataBlockSize(len(b)))
NewSerializedObjectParser(b) ==
    /\ buf' = b
    /\ pos' = 0
    /\ maxDataBlockSize' = Len(b)
    /\ handles' = <<>>
    /\ classes' = <<>>
    /\ maps' = <<>>
    /\ stack' = <<>>
    /\ ctl' = CtlStart
    /\ maxAlloc' = 0
    /\ outcome' = NoOutcome
    /\ steps' = 0
    /\ refs' = <<>>

\* ParseBase64ToObject up to the call of ParseSerializedObject
Base64ToBytes(value) ==
    IF ~Utf8Valid(value.b) THEN [err |-> "not valid utf8", b |-> <<>>]
    ELSE Base64Decode(value.b)

\* a variant of DeserializeRecord that converts the value from Java whatever
\* parseJavaToJson is
DeserializeRecordAlwaysConverts ==
    /\ pc = "call"
    /\ \E r \in (IF record.Topic = OffsetsTopic
                 THEN deserializeConsumerOffset(record)
                 ELSE {[err |-> "not tried", rec |-> NilRecord]}) :
          IF r.err = NoErr
          THEN /\ result' = r.rec
               /\ pc' = "done"
               /\ UNCHANGED pvars
          ELSE /\ result' = result
               /\ IF record.Topic \notin JavaSkippedTopics
                     /\ Base64ToBytes(record.Value).err = NoErr
                  THEN /\ NewSerializedObjectParser(Base64ToBytes(record.Value).b)
                       /\ pc' = "marshal"
                  ELSE /\ UNCHANGED pvars
                       /\ pc' = "payloads"
    /\ UNCHANGED <<record, parseJavaToJson, deserializer, input>>
    /\ UNCHANGED cvars
    /\ UNCHANGED svars
    /\ UNCHANGED uvars

\* lines 104-115: the consumer offsets codec, then the Java conversion of the
\* value up to its call of the parser
DeserializeRecord ==
    /\ pc = "call"
    /\ \E r \in (IF record.Topic = OffsetsTopic
                 THEN deserializeConsumerOffset(record)
                 ELSE {[err |-> "not tried", rec |-> NilRecord]}) :
          IF r.err = NoErr
          THEN /\ result' = r.rec
               /\ pc' = "done"
               /\ UNCHANGED pvars
          ELSE /\ result' = result
               /\ IF parseJavaToJson /\ record.Topic \notin JavaSkippedTopics
                     /\ Base64ToBytes(record.Value).err = NoErr
                  THEN /\ NewSerializedObjectParser(Base64ToBytes(record.Value).b)
                       /\ pc' = "marshal"
                  ELSE /\ UNCHANGED pvars
                       /\ pc' = "payloads"
    /\ UNCHANGED <<record, parseJavaToJson, deserializer, input>>
    /\ UNCHANGED cvars
    /\ UNCHANGED svars
    /\ UNCHANGED uvars

\* a variant of ParseBase64ToMarshal that hands back the text of a Java string
\* as it is, without the quotes of JSON
ParseBase64ToMarshalUnquoted ==
    /\ pc = "marshal"
    /\ ctl.op = "halt"
    /\ IF outcome.status = "panic"
       THEN /\ pc' = "panic"
            /\ record' = record
       ELSE /\ pc' = "payloads"
            /\ record' =
                 IF outcome.err = NoErr
                    /\ JsonMarshal(outcome.content, maps).err = NoErr
                 THEN [record EXCEPT
                         !.Value = IF outcome.content.k = "str"
                                   THEN BytesOf(outcome.content.s)
                                   ELSE BytesOf(JsonMarshal(outcome.content, maps).b)]
                 ELSE record
    /\ ParserIdle
    /\ UNCHANGED <<parseJavaToJson, deserializer, result, input>>
    /\ UNCHANGED cvars
    /\ UNCHANGED svars
    /\ UNCHANGED uvars

\* lines 115-118: ParseBase64ToMarshal returns. json.Marshal(buf) gives the
\* new record.Value unless the parser or the marshalling reports an error
ParseBase64ToMarshal ==
    /\ pc = "marshal"
    /\ ctl.op = "halt"
    /\ IF outcome.status = "panic"
       THEN /\ pc' = "panic"
            /\ record' = record
       ELSE /\ pc' = "payloads"
            /\ record' =
                 IF outcome.err = NoErr
                    /\ JsonMarshal(outcome.content, maps).err = NoErr
                 THEN [record EXCEPT
                         !.Value = BytesOf(JsonMarshal(outcome.content, maps).b)]
                 ELSE record
    /\ ParserIdle
    /\ UNCHANGED <<parseJavaToJson, deserializer, result, input>>
    /\ UNCHANGED cvars
    /\ UNCHANGED svars
    /\ UNCHANGED uvars

\* headers[header.Key] = d.deserializePayload(header.Value, ...) for the first
\* n headers, a later header replacing an earlier one of the same key
RECURSIVE HeaderResults(_, _, _, _)
HeaderResults(dd, headers, topicName, n) ==
    IF n = 0 THEN {[isNil |-> FALSE, m |-> <<>>]}
    ELSE {[isNil |-> FALSE,
           m |-> MapPut(hs.m, K(headers[n].Key), p)]
            : hs \in HeaderResults(dd, headers, topicName, n - 1),
              p \in deserializePayload(dd, headers[n].Value, topicName, "value")}

\* lines 122-134: the headers, the key and the value go through
\* deserializePayload; on online-connector-out the value is then parsed again
deserializePayloads ==
    /\ pc = "payloads"
    /\ \E hs \in HeaderResults(deserializer, record.Headers, record.Topic, Len(record.Headers)),
          k \in deserializePayload(deserializer, record.Key, record.Topic, "key"),
          v \in deserializePayload(deserializer, record.Value, record.Topic, "value") :
          result' = NewDeserializedRecord(k, v, hs)
    /\ IF parseJavaToJson /\ record.Topic = "online-connector-out"
          /\ Base64ToBytes(record.Value).err = NoErr
       THEN /\ NewSerializedObjectParser(Base64ToBytes(record.Value).b)
            /\ pc' = "object"
       ELSE /\ UNCHANGED pvars
            /\ pc' = "done"
    /\ UNCHANGED <<record, parseJavaToJson, deserializer, input>>
    /\ UNCHANGED cvars
    /\ UNCHANGED svars
    /\ UNCHANGED uvars

\* lines 134-141: ParseBase64ToObject returns; fmt.Sprint(obj) replaces the
\* payload of the value unless the parser reports an error
ParseBase64ToObject ==
    /\ pc = "object"
    /\ ctl.op = "halt"
    /\ IF outcome.status = "panic"
       THEN /\ pc' = "panic"
            /\ result' = result
       ELSE /\ pc' = "done"
            /\ result' =
                 IF outcome.err = NoErr
                 THEN [result EXCEPT
                         !.Value.Payload.Payload = BytesOf(Sprint(outcome.content, maps, 0))]
                 ELSE result
    /\ ParserIdle
    /\ UNCHANGED <<record, parseJavaToJson, deserializer, input>>
    /\ UNCHANGED cvars
    /\ UNCHANGED svars
    /\ UNCHANGED uvars


\* the caller hands the record to DeserializeRecord a second time, as the
\* first call left it
DeserializeRecordAgain ==
    /\ pc = "done"
    /\ calls = 1
    /\ first' = result
    /\ calls' = 2
    /\ result' = NilRecord
    /\ pc' = "call"
    /\ UNCHANGED <<record, parseJavaToJson, deserializer, input>>
    /\ UNCHANGED pvars
    /\ UNCHANGED svars
    /\ UNCHANGED uvars

----------------------------------------------------------------------------
(* serde/base64_java.go: Base64JavaSerde.DeserializePayload                 *)
(* The value java2json.ParseJavaObject returns is a graph of Go values. A   *)
(* []interface{} is a slice header SliceOf(id, n) over the backing array    *)
(* nodes[id], a map[string]interface{} is a reference MapRef(id) to the     *)
(* entries nodes[id]; nil, strings and numbers are values.                  *)
(* serdePc: "idle"  no call of the serde is under way                       *)
(*          "call"  DeserializePayload is about to be called                *)
(*          "done"  DeserializePayload has returned recordPayload           *)

maxObjectNodeDepth == 7
maxStringLength == 4000

SliceOf(id, n) == [k |-> "slice", id |-> id, n |-> n]

IsContainer(v) == v.k \in {"slice", "map"}

\* the elements a container holds: the first n places of the backing array
\* of a slice, the values of a map
Children(h, v) ==
    IF v.k = "slice" THEN SubSeq(h[v.id], 1, v.n)
    ELSE IF v.k = "map" THEN [i \in 1..Len(h[v.id]) |-> h[v.id][i].val]
    ELSE <<>>

\* the string case keeping the last maxLen units instead of the first
truncateStringKeepsTail(s, maxLen) ==
    IF Len(s) > maxLen THEN SubSeq(s, Len(s) - maxLen + 1, Len(s)) ELSE s

\* lines 93-96: obj[:maxStringLength] of a string longer than that
truncateString(s, maxLen) ==
    IF Len(s) > maxLen THEN SubSeq(s, 1, maxLen) ELSE s

RECURSIVE truncateObject(_, _, _, _, _)
RECURSIVE truncateSlice(_, _, _, _, _, _)
RECURSIVE truncateMap(_, _, _, _, _, _)

\* lines 87-118. h is the heap; the result is the set of the pairs (heap,
\* returned value) the call can end with, one for every order in which range
\* visits the keys of the maps
truncateObject(h, obj, depth, maxDepth, maxLen) ==
    IF maxDepth <= 0 \/ obj = Nil THEN {[h |-> h, v |-> obj]}
    ELSE IF obj.k = "str"
    THEN {[h |-> h, v |-> Str(truncateString(obj.s, maxLen))]}
    ELSE IF obj.k = "slice"
    THEN IF depth + 1 >= maxDepth
         THEN {[h |-> h, v |-> SliceOf(obj.id, 0)]}
         ELSE {[h |-> h2, v |-> obj]
                 : h2 \in truncateSlice(h, obj, 1, depth, maxDepth, maxLen)}
    ELSE IF obj.k = "map"
    THEN IF depth + 1 >= maxDepth
         THEN {[h |-> [h EXCEPT ![obj.id] = <<>>], v |-> obj]}
         ELSE {[h |-> h2, v |-> obj]
                 : h2 \in truncateMap(h, obj, {h[obj.id][i].key : i \in 1..Len(h[obj.id])},
                                      depth, maxDepth, maxLen)}
    ELSE {[h |-> h, v |-> obj]}

\* lines 101-103: for index, value := range obj, from index on
truncateSlice(h, obj, index, depth, maxDepth, maxLen) ==
    IF index > obj.n THEN {h}
    ELSE UNION {truncateSlice([r.h EXCEPT ![obj.id][index] = r.v], obj, index + 1,
                              depth, maxDepth, maxLen)
                  : r \in truncateObject(h, h[obj.id][index], depth + 1, maxDepth, maxLen)}

\* lines 111-113: for key, value := range obj, the keys left to visit in any
\* order
truncateMap(h, obj, keys, depth, maxDepth, maxLen) ==
    IF keys = {} THEN {h}
    ELSE UNION {UNION {truncateMap([r.h EXCEPT ![obj.id] = MapPut(@, key, r.v)], obj,
                                   keys \ {key}, depth, maxDepth, maxLen)
                         : r \in truncateObject(h, MapGet(h[obj.id], key), depth + 1,
                                                maxDepth, maxLen)}
                  : key \in keys}

\* a string json.Marshal copies between quotes as it is
IsPlain(s) == \A i \in 1..Len(s) : s[i] >= 32 /\ s[i] < 127 /\ s[i] \notin {34, 92, 60, 62, 38}

JsonStringOf(s) == IF IsPlain(s) THEN <<34>> \o s \o <<34>> ELSE JsonString(s)

RECURSIVE MarshalObject(_, _)
RECURSIVE MarshalElements(_, _, _)
RECURSIVE MarshalEntries(_, _, _)

\* line 43: json.Marshal(obj) of an acyclic graph
MarshalObject(h, v) ==
    CASE v.k = "nil" -> NullText
      [] v.k = "str" -> JsonStringOf(v.s)
      [] v.k = "num" -> NumText(v)
      [] v.k = "slice" -> <<91>> \o MarshalElements(h, Children(h, v), 1) \o <<93>>
      [] v.k = "map" -> <<123>> \o MarshalEntries(h, SortEntries(h[v.id]), 1) \o <<125>>

MarshalElements(h, l, i) ==
    IF i > Len(l) THEN <<>>
    ELSE (IF i > 1 THEN <<44>> ELSE <<>>) \o MarshalObject(h, l[i])
         \o MarshalElements(h, l, i + 1)

MarshalEntries(h, m, i) ==
    IF i > Len(m) THEN <<>>
    ELSE (IF i > 1 THEN <<44>> ELSE <<>>) \o JsonStringOf(m[i].key.s) \o <<58>>
         \o MarshalObject(h, m[i].val) \o MarshalEntries(h, m, i + 1)

NoRecordPayload ==
    [err |-> "not called", DeserializedPayload |-> Nil, NormalizedPayload |-> <<>>,
     Encoding |-> ""]

\* the serde at rest
SerdeIdle ==
    /\ nodes = <<>>
    /\ nodesIn = <<>>
    /\ javaObject = [err |-> NoErr, obj |-> Nil]
    /\ recordPayload = NoRecordPayload
    /\ serdePc = "idle"

\* lines 28-53. javaObject is what base64.StdEncoding.DecodeString and
\* java2json.ParseJavaObject made of the payload: an error, or the graph obj
\* in nodes
DeserializePayload ==
    /\ serdePc = "call"
    /\ IF javaObject.err # NoErr
       THEN /\ recordPayload' = [NoRecordPayload EXCEPT !.err = javaObject.err]
            /\ nodes' = nodes
       ELSE \E r \in truncateObject(nodes, javaObject.obj, 0, maxObjectNodeDepth,
                                    maxStringLength) :
               /\ nodes' = r.h
               /\ recordPayload' =
                    [err |-> NoErr, DeserializedPayload |-> r.v,
                     NormalizedPayload |-> MarshalObject(r.h, r.v),
                     Encoding |-> "PayloadEncodingBase64Java"]
    /\ serdePc' = "done"
    /\ UNCHANGED <<nodesIn, javaObject>>
    /\ UNCHANGED pvars
    /\ UNCHANGED dvars
    /\ UNCHANGED cvars
    /\ UNCHANGED uvars

----------------------------------------------------------------------------
(* frontend, Tab.Messages/index.tsx: TopicMessageView.searchFunc            *)
(* searches is the list of the searches executeMessageSearch has started on *)
(* this.messageSearch. A search is                                          *)
(*   "running"   the request is under way                                   *)
(*   "finished"  the search has ended by itself, its promise is resolved    *)
(*   "stopped"   stopSearch has aborted it                                  *)
(*   "settled"   the finally callback of its promise has run                *)
(* A finally callback never runs inside the call that settles the promise:  *)
(* it is a step of its own, after the searchFunc that stopped the search.   *)

Null == "null"

\* the strings the seven search parameters can make
SearchParams == {"p1", "p2"}

MaxSearches == 3

NewSearch(params, source) ==
    [params |-> params, by |-> source, state |-> "running",
     stoppedBy |-> "none", stoppedWith |-> Null]

Running == {i \in 1..Len(searches) : searches[i].state = "running"}

\* this.messageSearch.stopSearch() called from source while the parameters
\* are params: the search under way is aborted
stopSearch(list, source, params) ==
    [i \in 1..Len(list) |->
        IF list[i].state = "running"
        THEN [list[i] EXCEPT !.state = "stopped", !.stoppedBy = source,
                             !.stoppedWith = params]
        ELSE list[i]]

\* the view at rest: no search was started
SearchIdle ==
    /\ searchParams = "p1"
    /\ currentSearchRun = Null
    /\ searchPhase = Null
    /\ searches = <<>>
    /\ lastTrigger = [source |-> "none", ignored |-> FALSE]

\* lines 591-635: searchFunc(source)
searchFunc(source) ==
    LET phase == searchPhase IN
    IF searchParams = currentSearchRun /\ source = "auto"
    THEN /\ lastTrigger' = [source |-> source, ignored |-> TRUE]
         /\ UNCHANGED <<searchParams, currentSearchRun, searchPhase, searches>>
    ELSE /\ Len(searches) < MaxSearches
         /\ lastTrigger' = [source |-> source, ignored |-> FALSE]
         /\ currentSearchRun' = searchParams
         /\ searches' = Append(IF phase # "Done"
                               THEN stopSearch(searches, source, searchParams)
                               ELSE searches,
                               NewSearch(searchParams, source))
         /\ searchPhase' = "Searching"
         /\ UNCHANGED searchParams

\* the autorun of line 251 and the call of line 311
SearchAuto ==
    /\ searchFunc("auto")
    /\ UNCHANGED <<pvars, dvars, cvars, svars, mvars>>

\* the buttons of lines 529 and 583
SearchManual ==
    /\ searchFunc("manual")
    /\ UNCHANGED <<pvars, dvars, cvars, svars, mvars>>

\* line 637 and the button of line 536: cancelSearch
cancelSearch ==
    /\ Running # {}
    /\ searches' = stopSearch(searches, "cancel", searchParams)
    /\ searchPhase' = Null
    /\ UNCHANGED <<searchParams, currentSearchRun, lastTrigger>>
    /\ UNCHANGED <<pvars, dvars, cvars, svars, mvars>>

\* the user changes a search parameter
ChangeParams ==
    /\ \E p \in SearchParams \ {searchParams} : searchParams' = p
    /\ UNCHANGED <<currentSearchRun, searchPhase, searches, lastTrigger>>
    /\ UNCHANGED <<pvars, dvars, cvars, svars, mvars>>

\* the search under way ends by itself: the phase is 'Done' and the promise
\* of startSearch is resolved
SearchDone ==
    /\ \E i \in Running :
          searches' = [searches EXCEPT ![i].state = "finished"]
    /\ searchPhase' = "Done"
    /\ UNCHANGED <<searchParams, currentSearchRun, lastTrigger>>
    /\ UNCHANGED <<pvars, dvars, cvars, svars, mvars>>

\* lines 625-629: the finally callback of a search that ended or was stopped
SearchSettled ==
    /\ \E i \in 1..Len(searches) :
          /\ searches[i].state \in {"finished", "stopped"}
          /\ searches' = [searches EXCEPT ![i].state = "settled"]
    /\ currentSearchRun' = Null
    /\ UNCHANGED <<searchParams, searchPhase, lastTrigger>>
    /\ UNCHANGED <<pvars, dvars, cvars, svars, mvars>>

----------------------------------------------------------------------------
(* frontend, Topic.List.tsx: ConfirmDeleteAllRecordsModal                   *)
(* modalPc: "idle"        the modal is open, no deletion is under way       *)
(*          "refreshing"  onOk has called api.refreshPartitions()           *)
(*          "deleting"    the delete requests of the topics are under way   *)
(*          "finish"      the chain is about to call finish(errors)         *)
(*          "catch"       the chain is about to call setError               *)
(*          "finally"     the chain is about to run its finally callback    *)
(*          "settled"     the chain has settled; after finish the modal is  *)
(*                        closed, after setError it shows Retry             *)
(*          "closed"      onCancel has closed the modal                     *)
(* server is what the backend answers: refresh, whether refreshPartitions   *)
(* resolves; topics, api.topics after it; responses, for every topic what   *)
(* deleteTopicRecordsFromAllPartitionsHighWatermark does: it resolves to    *)
(* null, resolves to the partitions with their errors, or is rejected.      *)

MaxAttempts == 2

TopicNames == <<"t1", "t2">>

\* the answers to the delete request of one topic of two partitions
Responses ==
    {[kind |-> "null", partitions |-> <<>>], [kind |-> "rejected", partitions |-> <<>>]}
    \cup {[kind |-> "data",
           partitions |-> <<[partitionId |-> 0, error |-> e0],
                            [partitionId |-> 1, error |-> e1]>>]
            : e0 \in {Null, "offset out of range"}, e1 \in {Null, "not leader"}}

\* api.topics: null or the topics
NoTopics == [isNull |-> TRUE, list |-> <<>>]
TopicsOf(list) == [isNull |-> FALSE, list |-> list]

Servers ==
    {[refresh |-> r, topics |-> t, responses |-> rs]
       : r \in {"resolved", "rejected"},
         t \in {NoTopics, TopicsOf(<<>>), TopicsOf(SubSeq(TopicNames, 1, 1)),
               TopicsOf(TopicNames)},
         rs \in [1..Len(TopicNames) -> Responses]}

\* Array.prototype.concat: the array it returns; the receiver is left as it is
concat(a, b) == a \o b

\* Array.prototype.filter on the partitions: those with an error
errorPartitions(responseData) ==
    SelectSeq(responseData.partitions, LAMBDA partition : partition.error # Null)

\* lines 374-385: the errors array of the then callback of one topic. The
\* array concat returns for the partitions in error is dropped
topicErrors(topicName, responseData) ==
    IF responseData.kind = "null"
    THEN <<[topic |-> topicName, partition |-> -1, error |-> "doesn't have partitions"]>>
    ELSE LET dropped == concat(<<>>,
                 [i \in 1..Len(errorPartitions(responseData)) |->
                     [topic |-> topicName,
                      partition |-> errorPartitions(responseData)[i].partitionId,
                      error |-> errorPartitions(responseData)[i].error]])
         IN  <<>>

\* lines 389-396: the errors array of the then callback of Promise.all. The
\* array concat returns for each response is dropped
allErrors(responses) ==
    LET dropped == [i \in 1..Len(responses) |-> concat(<<>>, responses[i].errors)]
    IN  <<>>

\* the modal at rest
ModalIdle ==
    /\ deletionPending = FALSE
    /\ error = Null
    /\ notifications = <<>>
    /\ modalPc = "idle"
    /\ server = [refresh |-> "resolved", topics |-> NoTopics,
                 responses |-> [i \in 1..Len(TopicNames) |->
                                  [kind |-> "null", partitions |-> <<>>]]]
    /\ errors = <<>>
    /\ attempts = 0

\* lines 360-364: onOk, the Yes or Retry button
onOk ==
    /\ modalPc = "idle" \/ (modalPc = "settled" /\ error # Null)
    /\ ~deletionPending
    /\ attempts < MaxAttempts
    /\ attempts' = attempts + 1
    /\ deletionPending' = TRUE
    /\ \E s \in Servers : server' = s
    /\ modalPc' = "refreshing"
    /\ UNCHANGED <<error, notifications, errors>>
    /\ UNCHANGED <<pvars, dvars, cvars, svars, fvars>>

\* lines 364-372: refreshPartitions() settles; without topics the chain goes
\* on with no error, else a delete request is sent for every topic
refreshPartitionsThen ==
    /\ modalPc = "refreshing"
    /\ IF server.refresh = "rejected"
       THEN /\ modalPc' = "catch"
            /\ UNCHANGED <<deletionPending, errors>>
       ELSE IF server.topics.isNull
       THEN /\ deletionPending' = FALSE
            /\ errors' = <<>>
            /\ modalPc' = "finish"
       ELSE /\ modalPc' = "deleting"
            /\ UNCHANGED <<deletionPending, errors>>
    /\ UNCHANGED <<error, notifications, server, attempts>>
    /\ UNCHANGED <<pvars, dvars, cvars, svars, fvars>>

\* lines 373-396: Promise.all of the then callbacks of the topics
deleteResponses ==
    /\ modalPc = "deleting"
    /\ IF \E i \in 1..Len(server.topics.list) : server.responses[i].kind = "rejected"
       THEN /\ modalPc' = "catch"
            /\ UNCHANGED errors
       ELSE /\ errors' = allErrors([i \in 1..Len(server.topics.list) |->
                             [topic |-> server.topics.list[i],
                              errors |-> topicErrors(server.topics.list[i],
                                                     server.responses[i])]])
            /\ modalPc' = "finish"
    /\ UNCHANGED <<deletionPending, error, notifications, server, attempts>>
    /\ UNCHANGED <<pvars, dvars, cvars, svars, fvars>>

\* lines 325-339: finish(errors): onFinish(), cleanup(), the notifications
finish ==
    /\ modalPc = "finish"
    /\ deletionPending' = FALSE
    /\ error' = Null
    /\ notifications' =
         IF Len(errors) > 0
         THEN notifications \o [i \in 1..Len(errors) |->
                                  [type |-> "error", message |-> errors[i]]]
         ELSE Append(notifications,
                     [type |-> "success",
                      message |-> "Records from all topics deleted successfully"])
    /\ modalPc' = "finally"
    /\ UNCHANGED <<server, errors, attempts>>
    /\ UNCHANGED <<pvars, dvars, cvars, svars, fvars>>

\* line 399: catch(setError)
catchSetError ==
    /\ modalPc = "catch"
    /\ error' = "rejected"
    /\ modalPc' = "finally"
    /\ UNCHANGED <<deletionPending, notifications, server, errors, attempts>>
    /\ UNCHANGED <<pvars, dvars, cvars, svars, fvars>>

\* line 400: finally(() => setDeletionPending(false))
finallyCallback ==
    /\ modalPc = "finally"
    /\ deletionPending' = FALSE
    /\ modalPc' = "settled"
    /\ UNCHANGED <<error, notifications, server, errors, attempts>>
    /\ UNCHANGED <<pvars, dvars, cvars, svars, fvars>>

\* lines 341-344: cancel, the No button, enabled while no deletion is pending
cancel ==
    /\ modalPc = "idle" \/ (modalPc = "settled" /\ error # Null)
    /\ ~deletionPending
    /\ deletionPending' = FALSE
    /\ error' = Null
    /\ modalPc' = "closed"
    /\ UNCHANGED <<notifications, server, errors, attempts>>
    /\ UNCHANGED <<pvars, dvars, cvars, svars, fvars>>

----------------------------------------------------------------------------
(* Inputs of the parser: streams as a JVM writes them, and what corruption *)
(* makes of them                                                           *)

\* String "ab"
StreamString ==
    <<172, 237, 0, 5, 116, 0, 2, 97, 98>>

\* LongString "a"
StreamLongString ==
    <<172, 237, 0, 5, 124, 0, 0, 0, 0, 0, 0, 0, 1, 97>>

\* BlockData of 2 bytes
StreamBlockData ==
    <<172, 237, 0, 5, 119, 2, 1, 2>>

\* BlockDataLong of 1 byte
StreamBlockDataLong ==
    <<172, 237, 0, 5, 122, 0, 0, 0, 1, 5>>

\* Object of class Ab {int n; Object s} whose field s is a Reference to the object itself
StreamSelfRef ==
    <<172, 237, 0, 5, 115, 114, 0, 2, 65, 98, 1, 2, 3, 4, 5, 6, 7, 8, 2, 0,
      2, 73, 0, 1, 110, 76, 0, 1, 115, 116, 0, 4, 76, 65, 98, 59, 120, 112,
      0, 0, 0, 7, 113, 0, 126, 0, 2>>

\* Array of class [B with 2 elements
StreamByteArray ==
    <<172, 237, 0, 5, 117, 114, 0, 2, 91, 66, 1, 2, 3, 4, 5, 6, 7, 8, 2, 0,
      0, 120, 112, 0, 0, 0, 2, 1, 2>>

\* Array of class [B declaring length -1
StreamNegativeArray ==
    <<172, 237, 0, 5, 117, 114, 0, 2, 91, 66, 1, 2, 3, 4, 5, 6, 7, 8, 2, 0,
      0, 120, 112, 255, 255, 255, 255>>

\* Array of class [L with 2 elements: a String and a Reference to it
StreamObjectArray ==
    <<172, 237, 0, 5, 117, 114, 0, 2, 91, 76, 1, 2, 3, 4, 5, 6, 7, 8, 2, 0,
      0, 120, 112, 0, 0, 0, 2, 116, 0, 1, 120, 113, 0, 126, 0, 2>>

\* Enum constant "X" of class En
StreamEnum ==
    <<172, 237, 0, 5, 126, 114, 0, 2, 69, 110, 1, 2, 3, 4, 5, 6, 7, 8, 18, 0,
      0, 120, 112, 116, 0, 1, 88>>

\* Class of class Ab whose superclass is a Reference to itself
StreamClass ==
    <<172, 237, 0, 5, 118, 114, 0, 2, 65, 98, 1, 2, 3, 4, 5, 6, 7, 8, 2, 0,
      0, 120, 113, 0, 126, 0, 0>>

\* Object of class Bb {byte n} extends Aa {boolean n; short m} with writeObject data, Aa being its own superclass
StreamInherit ==
    <<172, 237, 0, 5, 115, 114, 0, 2, 66, 98, 1, 2, 3, 4, 5, 6, 7, 8, 3, 0,
      1, 66, 0, 1, 110, 120, 114, 0, 2, 65, 97, 1, 2, 3, 4, 5, 6, 7, 8, 2, 0,
      2, 90, 0, 1, 110, 83, 0, 1, 109, 120, 113, 0, 126, 0, 1, 1, 0, 9, 5,
      119, 1, 9, 120>>

\* Object of an externalizable class (flags 0x0c) with one annotation
StreamExternal ==
    <<172, 237, 0, 5, 115, 114, 0, 2, 69, 120, 1, 2, 3, 4, 5, 6, 7, 8, 12, 0,
      0, 116, 0, 1, 107, 120, 112, 112, 120>>

\* java.util.ArrayList holding "x"
StreamArrayList ==
    <<172, 237, 0, 5, 115, 114, 0, 19, 106, 97, 118, 97, 46, 117, 116, 105,
      108, 46, 65, 114, 114, 97, 121, 76, 105, 115, 116, 120, 129, 210, 29,
      153, 199, 97, 157, 3, 0, 1, 73, 0, 4, 115, 105, 122, 101, 120, 112, 0,
      0, 0, 1, 119, 4, 0, 0, 0, 1, 116, 0, 1, 120, 120>>

\* java.util.Calendar whose class declares no field
StreamCalendar ==
    <<172, 237, 0, 5, 115, 114, 0, 18, 106, 97, 118, 97, 46, 117, 116, 105,
      108, 46, 67, 97, 108, 101, 110, 100, 97, 114, 230, 234, 77, 30, 200,
      220, 91, 142, 2, 0, 0, 120, 112>>

\* java.lang.Long 5
StreamLong ==
    <<172, 237, 0, 5, 115, 114, 0, 14, 106, 97, 118, 97, 46, 108, 97, 110,
      103, 46, 76, 111, 110, 103, 59, 139, 228, 144, 204, 143, 35, 223, 2, 0,
      1, 74, 0, 5, 118, 97, 108, 117, 101, 120, 112, 0, 0, 0, 0, 0, 0, 0, 5>>

\* java.lang.Double NaN
StreamDouble ==
    <<172, 237, 0, 5, 115, 114, 0, 16, 106, 97, 118, 97, 46, 108, 97, 110,
      103, 46, 68, 111, 117, 98, 108, 101, 128, 179, 194, 74, 41, 107, 251,
      4, 2, 0, 1, 68, 0, 5, 118, 97, 108, 117, 101, 120, 112, 127, 248, 0, 0,
      0, 0, 0, 0>>

\* java.util.HashMap holding one entry: the short 5 under the key "v" written as a char array of class [C
StreamHashMap ==
    <<172, 237, 0, 5, 115, 114, 0, 17, 106, 97, 118, 97, 46, 117, 116, 105,
      108, 46, 72, 97, 115, 104, 77, 97, 112, 5, 7, 218, 193, 195, 22, 96,
      209, 3, 0, 2, 70, 0, 10, 108, 111, 97, 100, 70, 97, 99, 116, 111, 114,
      73, 0, 9, 116, 104, 114, 101, 115, 104, 111, 108, 100, 120, 112, 63,
      64, 0, 0, 0, 0, 0, 12, 119, 8, 0, 0, 0, 16, 0, 0, 0, 1, 117, 114, 0, 2,
      91, 67, 1, 2, 3, 4, 5, 6, 7, 8, 2, 0, 0, 120, 112, 0, 0, 0, 1, 0, 118,
      117, 114, 0, 2, 91, 83, 1, 2, 3, 4, 5, 6, 7, 8, 2, 0, 0, 120, 112, 0,
      0, 0, 1, 0, 5, 120>>

BaseStreams ==
    << StreamString,
       StreamLongString,
       StreamBlockData,
       StreamBlockDataLong,
       StreamSelfRef,
       StreamByteArray,
       StreamNegativeArray,
       StreamObjectArray,
       StreamEnum,
       StreamClass,
       StreamInherit,
       StreamExternal,
       StreamArrayList,
       StreamCalendar,
       StreamLong,
       StreamDouble,
       StreamHashMap >>

\* Object of class Ch, externalizable with block data (flags 0x04), extends java.util.Calendar, whose class declares no field
StreamCalendarChild ==
    <<172, 237, 0, 5, 115, 114, 0, 2, 67, 104, 1, 2, 3, 4, 5, 6, 7, 8, 4, 0,
      0, 120, 114, 0, 18, 106, 97, 118, 97, 46, 117, 116, 105, 108, 46, 67,
      97, 108, 101, 110, 100, 97, 114, 230, 234, 77, 30, 200, 220, 91, 142,
      2, 0, 0, 120, 112>>

\* Object whose class descriptor has the name A of one byte; the stream ends after the name
StreamShortName ==
    <<172, 237, 0, 5, 115, 114, 0, 1, 65>>

\* Array of class [L with 2 elements: an array of class [B holding the byte 7, and a Reference to that array
StreamArrayBackRef ==
    <<172, 237, 0, 5, 117, 114, 0, 2, 91, 76, 1, 2, 3, 4, 5, 6, 7, 8, 2, 0,
      0, 120, 112, 0, 0, 0, 2, 117, 114, 0, 2, 91, 66, 1, 2, 3, 4, 5, 6, 7,
      8, 2, 0, 0, 120, 112, 0, 0, 0, 1, 7, 113, 0, 126, 0, 3>>

\* Array of class [L with 2 elements: an Object of class Ab without fields, and a Reference to that object
StreamObjectBackRef ==
    <<172, 237, 0, 5, 117, 114, 0, 2, 91, 76, 1, 2, 3, 4, 5, 6, 7, 8, 2, 0,
      0, 120, 112, 0, 0, 0, 2, 115, 114, 0, 2, 65, 98, 1, 2, 3, 4, 5, 6, 7,
      8, 2, 0, 0, 120, 112, 113, 0, 126, 0, 3>>

\* java.util.ArrayList holding nothing
StreamArrayListEmpty ==
    <<172, 237, 0, 5, 115, 114, 0, 19, 106, 97, 118, 97, 46, 117, 116, 105,
      108, 46, 65, 114, 114, 97, 121, 76, 105, 115, 116, 120, 129, 210, 29,
      153, 199, 97, 157, 3, 0, 1, 73, 0, 4, 115, 105, 122, 101, 120, 112, 0,
      0, 0, 0, 119, 4, 0, 0, 0, 0, 120>>

\* java.util.ArrayList whose first annotation is a block of 2 bytes
StreamArrayListShortBlock ==
    <<172, 237, 0, 5, 115, 114, 0, 19, 106, 97, 118, 97, 46, 117, 116, 105,
      108, 46, 65, 114, 114, 97, 121, 76, 105, 115, 116, 120, 129, 210, 29,
      153, 199, 97, 157, 3, 0, 1, 73, 0, 4, 115, 105, 122, 101, 120, 112, 0,
      0, 0, 0, 119, 2, 0, 0, 120>>

\* java.util.ArrayList declaring 2 elements and holding "x" alone
StreamArrayListMissing ==
    <<172, 237, 0, 5, 115, 114, 0, 19, 106, 97, 118, 97, 46, 117, 116, 105,
      108, 46, 65, 114, 114, 97, 121, 76, 105, 115, 116, 120, 129, 210, 29,
      153, 199, 97, 157, 3, 0, 1, 73, 0, 4, 115, 105, 122, 101, 120, 112, 0,
      0, 0, 2, 119, 4, 0, 0, 0, 2, 116, 0, 1, 120, 120>>

\* java.util.ArrayDeque holding "x" and "y"
StreamArrayDeque ==
    <<172, 237, 0, 5, 115, 114, 0, 20, 106, 97, 118, 97, 46, 117, 116, 105,
      108, 46, 65, 114, 114, 97, 121, 68, 101, 113, 117, 101, 32, 124, 218,
      46, 36, 13, 160, 139, 3, 0, 0, 120, 112, 119, 4, 0, 0, 0, 2, 116, 0, 1,
      120, 116, 0, 1, 121, 120>>

\* java.util.concurrent.CopyOnWriteArrayList holding "x" after a block of 5 bytes
StreamCopyOnWrite ==
    <<172, 237, 0, 5, 115, 114, 0, 41, 106, 97, 118, 97, 46, 117, 116, 105,
      108, 46, 99, 111, 110, 99, 117, 114, 114, 101, 110, 116, 46, 67, 111,
      112, 121, 79, 110, 87, 114, 105, 116, 101, 65, 114, 114, 97, 121, 76,
      105, 115, 116, 120, 93, 159, 213, 70, 171, 144, 195, 3, 0, 0, 120, 112,
      119, 5, 0, 0, 0, 1, 9, 116, 0, 1, 120, 120>>

\* streams read as they are
OtherStreams ==
    { StreamCalendarChild,
      StreamShortName,
      StreamArrayBackRef,
      StreamObjectBackRef,
      StreamArrayListEmpty,
      StreamArrayListShortBlock,
      StreamArrayListMissing,
      StreamArrayDeque,
      StreamCopyOnWrite }

\* bytes a corrupted stream holds in place of an original one
AltBytes == <<112, 255, 113, 0, 120, 4, 115, 128>>

MaxAlt == 3
MaxTrail == 1

Prefixes(s) == {SubSeq(s, 1, n) : n \in 0..Len(s)}

Substitutions(s) ==
    {[s EXCEPT ![i] = AltBytes[j]] : i \in 1..Len(s), j \in 1..Min(MaxAlt, Len(AltBytes))}

RECURSIVE Trails(_)
Trails(n) ==
    IF n = 0 THEN {<<>>}
    ELSE {<<>>} \cup {<<b>> \o t : b \in {112}, t \in Trails(n - 1)}

Extensions(s) == {s \o t : t \in Trails(MaxTrail)}

\* a stream whose content is the one tag byte t
StreamTag(t) == <<172, 237, 0, 5, t>>

\* tag bytes below TYPE_MASK and above TYPE_MASK + TYPE_CODE_MAX, and the tags
\* of Reset, Exception and ProxyClassDesc
SomeTags == {0, 111, 127, 255, 121, 123, 125}

\* a stream whose content is a Reference of index i, for i in 0..255
StreamReference(i) == <<172, 237, 0, 5, 113, 0, 126, 0, i>>

\* a stream whose content is a Reference of the int32 behind the bytes w
StreamReferenceWord(w) == <<172, 237, 0, 5, 113>> \o w

ReferenceStreams ==
    {StreamReference(0), StreamReference(5),
     StreamReferenceWord(<<0, 125, 255, 255>>),
     StreamReferenceWord(<<128, 0, 0, 0>>)}

JavaInputs ==
    UNION {Prefixes(BaseStreams[i]) \cup Substitutions(BaseStreams[i])
           \cup Extensions(BaseStreams[i]) : i \in 1..Len(BaseStreams)}
    \cup {StreamTag(t) : t \in SomeTags}
    \cup ReferenceStreams
    \cup OtherStreams

----------------------------------------------------------------------------
(* ParseSerializedObject(buf) called on its own *)

\* NewSerializedObjectParser with SetMaxDataBlockSize(len(buf))
ParserFields(b) ==
    /\ buf = b
    /\ pos = 0
    /\ maxDataBlockSize = Len(b)
    /\ handles = <<>>
    /\ classes = <<>>
    /\ maps = <<>>
    /\ stack = <<>>
    /\ ctl = CtlStart
    /\ maxAlloc = 0
    /\ outcome = NoOutcome
    /\ steps = 0
    /\ refs = <<>>

EmptyRecord == [Topic |-> "", Key |-> NilBytes, Value |-> NilBytes, Headers |-> <<>>]

NoDeserializer ==
    [SchemaService |-> [isNil |-> TRUE],
     ProtoService |-> [isNil |-> TRUE, schemaIDs |-> {}],
     MsgPackService |-> [isNil |-> TRUE, allowedTopics |-> {}]]

ParserInit ==
    /\ \E b \in JavaInputs : ParserFields(b)
    /\ record = EmptyRecord
    /\ input = EmptyRecord
    /\ parseJavaToJson = FALSE
    /\ deserializer = NoDeserializer
    /\ result = NilRecord
    /\ pc = "none"
    /\ first = NilRecord
    /\ calls = 1
    /\ SerdeIdle
    /\ SearchIdle
    /\ ModalIdle

ParserNext ==
    \/ ParseSerializedObject
    \/ ContentReject
    \/ parseNull
    \/ parseEndBlockData
    \/ parseReference
    \/ parseString
    \/ parseLongString
    \/ parseBlockData
    \/ parseBlockDataLong
    \/ parseClassDesc
    \/ fieldDesc
    \/ fieldDescClassName
    \/ classAnnotation
    \/ classSuper
    \/ parseClass
    \/ parseClassHandle
    \/ parseArray
    \/ parseArraySize
    \/ arrayElement
    \/ arrayElementContent
    \/ parseEnum
    \/ parseEnumDeferred
    \/ parseEnumConstant
    \/ parseObject
    \/ parseObjectDeferred
    \/ classData
    \/ values
    \/ valuesContent
    \/ dataAnnotation
    \/ parseObjectHandle
    \/ Fail
    \/ ParseSerializedObjectEnd

ParserSpec == ParserInit /\ [][ParserNext]_vars


----------------------------------------------------------------------------
(* Base64JavaSerde.DeserializePayload called on one payload *)

MaxNest == 10

StringLengths == {0, 1, 4000, 4001, 5000}

\* a string of n units, no two neighbours alike
Text(n) == [i \in 1..n |-> 97 + (i % 26)]

Kinds == {"slices", "maps", "mixed"}

KindAt(kind, k) ==
    IF kind = "slices" THEN "slice"
    ELSE IF kind = "maps" THEN "map"
    ELSE IF k % 2 = 1 THEN "slice" ELSE "map"

LevelTag(k) == Str(<<108, 48 + k>>)

\* n containers nested in one another, level 1 outermost. The container of
\* level k holds the data LevelTag(k), at level at a string of len units as
\* well, and the container of level k + 1; it is nodes[k]
ChainSize(k, n, at) == 1 + (IF at = k THEN 1 ELSE 0) + (IF k < n THEN 1 ELSE 0)

ChainRef(kind, k, n, at) ==
    IF KindAt(kind, k) = "slice" THEN SliceOf(k, ChainSize(k, n, at)) ELSE MapRef(k)

ChainElements(kind, k, n, len, at) ==
    <<LevelTag(k)>>
    \o (IF at = k THEN <<Str(Text(len))>> ELSE <<>>)
    \o (IF k < n THEN <<ChainRef(kind, k + 1, n, at)>> ELSE <<>>)

ChainNode(kind, k, n, len, at) ==
    LET e == ChainElements(kind, k, n, len, at) IN
    IF KindAt(kind, k) = "slice" THEN e
    ELSE [i \in 1..Len(e) |-> [key |-> K(<<96 + i>>), val |-> e[i]]]

Chain(kind, n, len, at) ==
    [h |-> [k \in 1..n |-> ChainNode(kind, k, n, len, at)],
     obj |-> ChainRef(kind, 1, n, at)]

\* a slice A = [string, [string]] met at level 2 and again at level 7
Shared(len) ==
    [h |-> <<(<<SliceOf(2, 2), SliceOf(3, 1)>>),
             (<<Str(Text(len)), SliceOf(8, 1)>>),
             (<<SliceOf(4, 1)>>), (<<SliceOf(5, 1)>>), (<<SliceOf(6, 1)>>), (<<SliceOf(7, 1)>>),
             (<<SliceOf(2, 2)>>),
             (<<LevelTag(3)>>)>>,
     obj |-> SliceOf(1, 2)]

\* what ParseJavaObject can return: nil, a number, a string, containers
JavaObjects ==
    {[h |-> <<>>, obj |-> Nil], [h |-> <<>>, obj |-> Num("I", <<0, 0, 0, 7>>)]}
    \cup {[h |-> <<>>, obj |-> Str(Text(len))] : len \in StringLengths}
    \cup UNION {{Chain(kind, n, len, at) : kind \in Kinds, len \in StringLengths, at \in 1..n}
                  : n \in 1..MaxNest}
    \cup {Shared(len) : len \in StringLengths}

SerdeInit ==
    /\ \/ \E g \in JavaObjects :
             /\ nodes = g.h
             /\ nodesIn = g.h
             /\ javaObject = [err |-> NoErr, obj |-> g.obj]
       \/ /\ nodes = <<>>
          /\ nodesIn = <<>>
          /\ javaObject \in {[err |-> e, obj |-> Nil]
                               : e \in {"error decoding base64", "error parsing java object"}}
    /\ recordPayload = NoRecordPayload
    /\ serdePc = "call"
    /\ record = EmptyRecord
    /\ input = EmptyRecord
    /\ parseJavaToJson = FALSE
    /\ deserializer = NoDeserializer
    /\ result = NilRecord
    /\ pc = "none"
    /\ first = NilRecord
    /\ calls = 1
    /\ buf = <<>>
    /\ pos = 0
    /\ maxDataBlockSize = 0
    /\ handles = <<>>
    /\ classes = <<>>
    /\ maps = <<>>
    /\ stack = <<>>
    /\ ctl = CtlHalt
    /\ maxAlloc = 0
    /\ outcome = NoOutcome
    /\ steps = 0
    /\ refs = <<>>
    /\ SearchIdle
    /\ ModalIdle

SerdeNext == DeserializePayload

SerdeSpec == SerdeInit /\ [][SerdeNext]_vars

----------------------------------------------------------------------------
(* DeserializeRecord called on one record *)

\* sample payloads
ValueWhitespace == <<32, 9>>
ValueJSON == <<123, 34, 97, 34, 58, 49, 125>>
ValueJSONSpace == <<32, 91, 49, 93>>
ValueJSONNumber == <<32, 55, 10>>
ValueJSONString == <<34, 97, 34>>
ValueJSONTrail == <<123, 34, 97, 32, 34, 58, 32, 91, 93, 125, 10>>
ValueBadJSON == <<123, 98, 97, 100>>
ValueFramedJSON == <<0, 0, 0, 0, 7, 123, 125>>
ValueFramedBigID == <<0, 255, 255, 255, 254, 91, 93>>
ValueFramedAvro == <<0, 0, 0, 0, 7, 2, 4>>
ValueFramedShort == <<0, 0, 0, 0, 7>>
ValueXML == <<60, 97, 47, 62>>
ValueSmile == <<58, 41, 10, 1, 250, 251>>
ValueText == <<104, 101, 108, 108, 111>>
ValueUtf8High == <<195, 128>>
ValueUtf8Plain == <<32, 195, 169>>
ValueControl == <<97, 0, 98>>
ValueBinary == <<255, 254>>
ValueNotBase64 == <<114, 79, 48, 65, 66>>
KeyShort == <<0>>
KeyVersion0 == <<0, 0, 0, 1, 103>>
KeyVersion1 == <<0, 1, 0, 1, 103>>
KeyVersion2 == <<0, 2, 0, 1, 103>>
KeyVersion99 == <<0, 99, 255>>
KeyVersionNegative == <<255, 255, 123, 125>>
KeyText == <<107, 49>>
KeyOffsetCommit == <<0, 1, 0, 1, 103, 0, 1, 116, 0, 0, 0, 0>>

Topics == {OffsetsTopic, "orders", "event-in", "online-connector-out"}

\* the deserializers: no service, every service, a MessagePack service that
\* allows another topic only, the schema service alone
Deserializers ==
    {NoDeserializer,
     [SchemaService |-> [isNil |-> FALSE],
      ProtoService |-> [isNil |-> FALSE, schemaIDs |-> {0, 1}],
      MsgPackService |-> [isNil |-> FALSE, allowedTopics |-> {OffsetsTopic, "orders"}]],
     [SchemaService |-> [isNil |-> TRUE],
      ProtoService |-> [isNil |-> TRUE, schemaIDs |-> {}],
      MsgPackService |-> [isNil |-> FALSE, allowedTopics |-> {"other"}]],
     [SchemaService |-> [isNil |-> FALSE],
      ProtoService |-> [isNil |-> TRUE, schemaIDs |-> {}],
      MsgPackService |-> [isNil |-> TRUE, allowedTopics |-> {}]]}

\* values that hold a Java stream in base64: the streams above, one cut
\* short, one with a byte after the object, one holding TC_NULL alone, one
\* holding an unknown tag
\* a String whose text is StreamString in base64
StreamNested == <<172, 237, 0, 5, 116, 0, 12>> \o Base64Encode(StreamString)

JavaStreams ==
    {BaseStreams[i] : i \in 1..Len(BaseStreams)}
    \cup {SubSeq(StreamString, 1, 3), StreamString \o <<112>>, <<172, 237, 0, 5, 112>>,
          <<172, 237, 0, 5, 255>>, StreamNested}

JavaValues == {BytesOf(Base64Encode(s)) : s \in JavaStreams}

SomeKeys == {NilBytes, BytesOf(KeyOffsetCommit)}

Keys ==
    {NilBytes, BytesOf(<<>>)}
    \cup {BytesOf(b) : b \in {KeyShort, KeyVersion0, KeyVersion1, KeyVersion2,
                              KeyVersion99, KeyVersionNegative, KeyText,
                              KeyOffsetCommit}}

SomeValues == {NilBytes, BytesOf(<<>>), BytesOf(ValueJSON)}

Values ==
    {NilBytes, BytesOf(<<>>)}
    \cup {BytesOf(b) : b \in {ValueWhitespace, ValueJSON, ValueJSONSpace, ValueJSONNumber,
                              ValueJSONString, ValueJSONTrail, ValueBadJSON,
                              ValueFramedJSON, ValueFramedBigID, ValueFramedAvro,
                              ValueFramedShort, ValueXML, ValueSmile, ValueText,
                              ValueControl, ValueUtf8High, ValueUtf8Plain, ValueBinary,
                              ValueNotBase64}}
    \cup JavaValues

SomeHeaders ==
    {<<[Key |-> "h", Value |-> BytesOf(ValueText)]>>,
     <<[Key |-> "h", Value |-> NilBytes], [Key |-> "g", Value |-> BytesOf(ValueXML)]>>,
     <<[Key |-> "h", Value |-> BytesOf(ValueJSON)], [Key |-> "h", Value |-> BytesOf(ValueBinary)]>>}

NewRecord(topic, key, value, headers) ==
    [Topic |-> topic, Key |-> key, Value |-> value, Headers |-> headers]

Records ==
    {NewRecord(t, k, v, <<>>) : t \in Topics, k \in Keys, v \in SomeValues}
    \cup {NewRecord(t, k, v, <<>>) : t \in Topics, k \in SomeKeys, v \in Values}
    \cup {NewRecord(t, BytesOf(KeyText), BytesOf(ValueText), h) : t \in Topics, h \in SomeHeaders}

Init ==
    /\ record \in Records
    /\ input = record
    /\ parseJavaToJson \in BOOLEAN
    /\ deserializer \in Deserializers
    /\ result = NilRecord
    /\ pc = "call"
    /\ buf = <<>>
    /\ pos = 0
    /\ maxDataBlockSize = 0
    /\ handles = <<>>
    /\ classes = <<>>
    /\ maps = <<>>
    /\ stack = <<>>
    /\ ctl = CtlHalt
    /\ maxAlloc = 0
    /\ outcome = NoOutcome
    /\ steps = 0
    /\ refs = <<>>
    /\ first = NilRecord
    /\ calls = 1
    /\ SerdeIdle
    /\ SearchIdle
    /\ ModalIdle

Next ==
    \/ DeserializeRecordAgain
    \/ DeserializeRecord
    \/ ParseBase64ToMarshal
    \/ deserializePayloads
    \/ ParseBase64ToObject
    \/ ParseSerializedObject
    \/ ContentReject
    \/ parseNull
    \/ parseEndBlockData
    \/ parseReference
    \/ parseString
    \/ parseLongString
    \/ parseBlockData
    \/ parseBlockDataLong
    \/ parseClassDesc
    \/ fieldDesc
    \/ fieldDescClassName
    \/ classAnnotation
    \/ classSuper
    \/ parseClass
    \/ parseClassHandle
    \/ parseArray
    \/ parseArraySize
    \/ arrayElement
    \/ arrayElementContent
    \/ parseEnum
    \/ parseEnumDeferred
    \/ parseEnumConstant
    \/ parseObject
    \/ parseObjectDeferred
    \/ classData
    \/ values
    \/ valuesContent
    \/ dataAnnotation
    \/ parseObjectHandle
    \/ Fail
    \/ ParseSerializedObjectEnd

Spec == Init /\ [][Next]_vars


----------------------------------------------------------------------------
(* The views of the frontend on their own *)

\* no record is being deserialized, no stream parsed, no payload converted
BackendIdle ==
    /\ record = EmptyRecord
    /\ input = EmptyRecord
    /\ parseJavaToJson = FALSE
    /\ deserializer = NoDeserializer
    /\ result = NilRecord
    /\ pc = "none"
    /\ first = NilRecord
    /\ calls = 1
    /\ buf = <<>>
    /\ pos = 0
    /\ maxDataBlockSize = 0
    /\ handles = <<>>
    /\ classes = <<>>
    /\ maps = <<>>
    /\ stack = <<>>
    /\ ctl = CtlHalt
    /\ maxAlloc = 0
    /\ outcome = NoOutcome
    /\ steps = 0
    /\ refs = <<>>
    /\ SerdeIdle

\* TopicMessageView mounted
SearchInit == BackendIdle /\ SearchIdle /\ ModalIdle

SearchNext ==
    \/ SearchAuto
    \/ SearchManual
    \/ cancelSearch
    \/ ChangeParams
    \/ SearchDone
    \/ SearchSettled

SearchSpec == SearchInit /\ [][SearchNext]_vars

\* ConfirmDeleteAllRecordsModal shown
ModalInit == BackendIdle /\ SearchIdle /\ ModalIdle

ModalNext ==
    \/ onOk
    \/ refreshPartitionsThen
    \/ deleteResponses
    \/ finish
    \/ catchSetError
    \/ finallyCallback
    \/ cancel

ModalSpec == ModalInit /\ [][ModalNext]_vars
----------------------------------------------------------------------------
(* Properties of ParseSerializedObject *)

\* C3: the Java stream parser never crashes: on no input does
\* ParseSerializedObject end in a panic, it always ends by returning a value
\* or an error
ParserNeverPanics == outcome.status # "panic"

\* the input starts with the magic 0xACED and the protocol version 5
HeaderOk(b) ==
    Len(b) >= 4 /\ b[1] = 172 /\ b[2] = 237 /\ b[3] = 0 /\ b[4] = 5

\* the steps a call on n bytes can take: each content() consumes a byte of
\* its own or fails, and between two of them the parser walks at most the
\* class descriptors and fields read so far
StepBound(n) == (n + 1) * (n + 1)

\* C4: the Java stream parser never hangs: on every finite input the number
\* of steps ParseSerializedObject takes is bounded by the length of the
\* input, no step gives back input, every content() consumes the byte of its
\* tag or fails, and the call ends by a return or by a panic
ParserTerminates ==
    /\ [](/\ steps <= StepBound(Len(buf))
          /\ pos <= Len(buf)
          /\ ctl.op = "halt" => outcome.status \in {"returned", "panic"})
    /\ [][/\ pos' >= pos
          /\ ctl.op = "content" =>
                \/ pos' > pos
                \/ ctl'.op = "ret" /\ ctl'.err # NoErr]_vars

\* an object whose class walk meets a descriptor that is its own superclass
\* has been parsed to the end
SelfSuperParsed ==
    /\ buf = StreamInherit
    /\ ctl.op = "halt"
    /\ outcome.status = "returned"
    /\ outcome.err = NoErr

\* C10: on an input whose first two bytes are not 0xACED or whose next two
\* are not 5, inputs shorter than 4 bytes included, ParseSerializedObject
\* reads no content tag, allocates no handle and returns an error
BadHeaderFails ==
    (pc = "none" /\ ~HeaderOk(buf)) =>
        /\ ctl.op \in {"start", "halt"}
        /\ pos <= Min(4, Len(buf))
        /\ handles = <<>>
        /\ classes = <<>>
        /\ maps = <<>>
        /\ stack = <<>>
        /\ ctl.op = "halt" =>
              /\ outcome.status = "returned"
              /\ outcome.err # NoErr
              /\ outcome.content = Nil

\* a stream of the right magic and another version has been rejected
BadVersionRejected ==
    /\ pc = "none"
    /\ Len(buf) > 4
    /\ buf[1] = 172 /\ buf[2] = 237
    /\ buf[4] # 5
    /\ ctl.op = "halt"
    /\ outcome.err = "protocol version not recognized"

----------------------------------------------------------------------------
(* Properties of deserializePayload *)

\* the payloads of a record: its key, its value and the value of each header
PayloadsOf(rec) ==
    {rec.Key, rec.Value} \cup {rec.Headers[i].Value : i \in 1..Len(rec.Headers)}

RecordTypes == {"key", "value"}

Encodings ==
    {"none", "json", "xml", "avro", "protobuf", "msgpack", "smile", "text",
     "utf8WithControlChars", "binary"}

\* the decode steps whose outcome is the answer of a collaborator or of a
\* decoder of another package
CollaboratorProbes == {"xml", "avro", "protobuf", "msgpack", "smile"}

\* a decode step before the binary one has recognised the payload
Recognised(r) ==
    \E i \in 1..Len(r.probes) : r.probes[i].ok /\ r.probes[i].probe # "binary"

\* every collaborator that was asked has failed
AllCollaboratorsFailed(r) ==
    \A i \in 1..Len(r.probes) :
        r.probes[i].probe \in CollaboratorProbes => ~r.probes[i].ok

\* C1: deserializePayload is total: for every payload, topic, role and
\* deserializer, and however the collaborators answer, it returns a result,
\* never nil and never an error, whose encoding is one of the ten generic
\* encodings; a payload that is not blank and that no step recognises gets
\* binary
PayloadTotal ==
    \A p \in PayloadsOf(record), recordType \in RecordTypes :
        LET rs == deserializePayload(deserializer, p, record.Topic, recordType) IN
        /\ rs # {}
        /\ \E r \in rs : ~r.isNil /\ AllCollaboratorsFailed(r)
        /\ \A r \in rs :
              /\ ~r.isNil
              /\ r.RecognizedEncoding \in Encodings
              /\ r.Payload.RecognizedEncoding = r.RecognizedEncoding
              /\ (Len(TrimLeft(p.b)) > 0 /\ ~Recognised(r))
                    => r.RecognizedEncoding = "binary"

\* DeserializeRecord has returned what the generic path built
GenericDone == pc = "done" /\ ~result.isNil /\ ~result.Headers.isNil

\* a value that every collaborator was asked about and none recognised has
\* come out as binary
UnrecognisedIsBinary ==
    /\ GenericDone
    /\ result.Value.RecognizedEncoding = "binary"
    /\ \E i \in 1..Len(result.Value.probes) :
          result.Value.probes[i] = Probe("protobuf", FALSE)
    /\ \E i \in 1..Len(result.Value.probes) :
          result.Value.probes[i] = Probe("msgpack", FALSE)

\* the order of the decode steps
ProbeOrder ==
    <<"json", "schemaJson", "xml", "avro", "protobuf", "msgpack", "smile", "utf8",
      "binary">>

Rank(name) == CHOOSE i \in 1..Len(ProbeOrder) : ProbeOrder[i] = name

\* the encodings a decode step returns when it succeeds
ProbeEncodings(name) ==
    CASE name \in {"json", "schemaJson"} -> {"json"}
      [] name = "utf8" -> {"text", "utf8WithControlChars"}
      [] OTHER -> {name}

\* the condition under which a decode step is tried at all
Precondition(name, dd, p, topicName) ==
    CASE name = "json" -> startsWithJSON(TrimLeft(p.b))
      [] name = "schemaJson" ->
            IsFramed(dd, p) /\ startsWithJSON(SubSeq(p.b, 6, Len(p.b)))
      [] name = "xml" -> startsWithXML(TrimLeft(p.b))
      [] name = "avro" -> IsFramed(dd, p)
      [] name = "protobuf" -> ~dd.ProtoService.isNil
      [] name = "msgpack" -> MsgPackGate(dd, topicName)
      [] name = "smile" -> startsWithSmile(p)
      [] OTHER -> TRUE

\* the outcome of the steps that decode by themselves
OwnDecode(name, p) ==
    CASE name = "json" -> JsonUnmarshalOk(p.b)
      [] name = "schemaJson" -> JsonUnmarshalOk(SubSeq(p.b, 6, Len(p.b)))
      [] name = "utf8" -> Utf8Valid(p.b)
      [] OTHER -> TRUE

\* the steps behind result r ran in the fixed order, each step before the last
\* was tried exactly when its precondition held and failed, and the last one
\* succeeded and gave the encoding
ChainInOrder(dd, p, topicName, r) ==
    LET log == r.probes
        n == Len(log)
    IN  /\ n > 0
        /\ \A i \in 1..n, j \in 1..n :
              i < j => Rank(log[i].probe) < Rank(log[j].probe)
        /\ \A i \in 1..n : log[i].ok <=> i = n
        /\ \A i \in 1..n :
              log[i].probe \notin CollaboratorProbes
                 => log[i].ok = OwnDecode(log[i].probe, p)
        /\ r.RecognizedEncoding \in ProbeEncodings(log[n].probe)
        /\ \A q \in 1..Rank(log[n].probe) :
              (\E i \in 1..n : log[i].probe = ProbeOrder[q])
                 <=> Precondition(ProbeOrder[q], dd, p, topicName)

\* C2: the generic chain runs in the fixed order JSON, framed JSON, XML,
\* Avro, Protobuf, MessagePack, Smile, UTF-8 text, Binary and stops at the
\* first success: the encoding returned is that of the earliest step whose
\* precondition holds and whose decode succeeds, and no later step nor its
\* collaborator is consulted after it
ProbeChainOrdered ==
    \A p \in PayloadsOf(record), recordType \in RecordTypes :
        Len(TrimLeft(p.b)) > 0 =>
            \A r \in deserializePayload(deserializer, p, record.Topic, recordType) :
                ChainInOrder(deserializer, p, record.Topic, r)

\* a value has been decoded by MessagePack after two earlier steps failed on it
LaterProbeWins ==
    /\ GenericDone
    /\ result.Value.RecognizedEncoding = "msgpack"
    /\ Len(result.Value.probes) >= 3

\* C5: deserializePayload never conflates null and empty: a null payload
\* gives encoding none with isPayloadNull true, every non-null payload gives
\* isPayloadNull false, and an empty non-null payload gives size 0
NullAndEmptyKept ==
    \A p \in PayloadsOf(record), recordType \in RecordTypes :
        \A r \in deserializePayload(deserializer, p, record.Topic, recordType) :
            /\ p.isNil => r.RecognizedEncoding = "none" /\ r.IsPayloadNull
            /\ ~p.isNil => ~r.IsPayloadNull
            /\ (~p.isNil /\ Len(p.b) = 0) => r.Size = 0

\* a record with a null key and an empty value has come out with the two told
\* apart
NullKeyEmptyValueDone ==
    /\ GenericDone
    /\ input.Key.isNil
    /\ result.Key.IsPayloadNull
    /\ result.Key.RecognizedEncoding = "none"
    /\ ~input.Value.isNil
    /\ Len(input.Value.b) = 0
    /\ ~result.Value.IsPayloadNull
    /\ result.Value.Size = 0

----------------------------------------------------------------------------
(* Properties of DeserializeRecord *)

\* C6: on every topic, __consumer_offsets included, the value result of
\* DeserializeRecord has isPayloadNull true exactly when the value of the
\* record is null
ValueNullKept ==
    pc = "done" => (result.Value.IsPayloadNull <=> input.Value.isNil)

\* C7: no record is left without a decision: the record DeserializeRecord
\* returns has a key result and a value result, neither of them nil, also on
\* __consumer_offsets when a key of version 0, 1 or 2 does not decode
EveryRecordDecided ==
    pc = "done" => ~result.isNil /\ ~result.Key.isNil /\ ~result.Value.isNil

\* the consumer offsets codec rejects the key: too short, or an unknown version
KeyRejected(key) == Len(key.b) < 2 \/ Int16Of(key.b) \notin {0, 1, 2}

\* the results of the headers are those of deserializePayload on their bytes
HeadersFrom(rec) ==
    \A i \in 1..Len(rec.Headers) :
        MapGet(result.Headers.m, K(rec.Headers[i].Key))
            \in UNION {deserializePayload(deserializer, rec.Headers[j].Value,
                                          rec.Topic, "value")
                          : j \in {k \in 1..Len(rec.Headers) :
                                      rec.Headers[k].Key = rec.Headers[i].Key}}

\* C8: on __consumer_offsets, when the key is shorter than 2 bytes or its
\* version is not 0, 1 or 2, the codec fails and the generic chain runs on
\* the unmodified key, value and header bytes of the record: the result is
\* what deserializePayload returns for those bytes on that topic
OffsetsFallback ==
    (input.Topic = OffsetsTopic /\ KeyRejected(input.Key)) =>
        /\ \A r \in deserializeConsumerOffset(input) : r.err # NoErr
        /\ pc = "payloads" => record = input
        /\ pc = "done" =>
              /\ GenericDone
              /\ result.Key \in deserializePayload(deserializer, input.Key,
                                                  input.Topic, "key")
              /\ result.Value \in deserializePayload(deserializer, input.Value,
                                                    input.Topic, "value")
              /\ HeadersFrom(input)

\* a part of the result is nil or was decoded as the given structure
DecodedAs(part, structure) ==
    part.isNil
    \/ /\ part.RecognizedEncoding = "consumerOffsets"
       /\ part.Payload.RecognizedEncoding = "consumerOffsets"
       /\ part.probes = <<Probe(structure, TRUE)>>

\* no part of a result of the generic path is tagged consumerOffsets
NoOffsetsTag ==
    /\ result.Key.RecognizedEncoding # "consumerOffsets"
    /\ result.Value.RecognizedEncoding # "consumerOffsets"
    /\ \A i \in 1..Len(result.Headers.m) :
          result.Headers.m[i].val.RecognizedEncoding # "consumerOffsets"

\* C9: the consumer offsets codec is used on topic __consumer_offsets only,
\* before the generic chain and before any Java conversion; a key of version
\* 0 or 1 has key and value decoded as OffsetCommit structures, a key of
\* version 2 as GroupMetadata structures, each decoded part tagged
\* consumerOffsets; a null value is a tombstone of encoding none, not an error
OffsetsCodecFirst ==
    /\ (pc # "call" /\ input.Topic = OffsetsTopic /\ ~KeyRejected(input.Key)) =>
          /\ pc = "done"
          /\ ~result.isNil
          /\ result.Headers.isNil
          /\ record = input
          /\ steps = 0 /\ ctl = CtlHalt /\ outcome = NoOutcome
          /\ DecodedAs(result.Key,
                       IF Int16Of(input.Key.b) = 2 THEN "GroupMetadataKey"
                       ELSE "OffsetCommitKey")
          /\ ~result.Value.isNil
          /\ \/ result.Value = Tombstone(input.Value)
             \/ DecodedAs(result.Value,
                          IF Int16Of(input.Key.b) = 2 THEN "GroupMetadataValue"
                          ELSE "OffsetCommitValue")
          /\ input.Value.isNil =>
                /\ result.Value.RecognizedEncoding = "none"
                /\ result.Value.Payload.Payload.isNil
    /\ (pc = "done" /\ (input.Topic # OffsetsTopic \/ KeyRejected(input.Key))) =>
          GenericDone /\ NoOffsetsTag

\* on __consumer_offsets with Java conversion on, a key of version 1 and a
\* value that holds a Java stream have been decoded as an offset commit
OffsetCommitDecoded ==
    /\ pc = "done"
    /\ input.Topic = OffsetsTopic
    /\ parseJavaToJson
    /\ input.Key = BytesOf(KeyOffsetCommit)
    /\ input.Value = BytesOf(Base64Encode(StreamString))
    /\ ~result.Key.isNil
    /\ result.Key.probes = <<Probe("OffsetCommitKey", TRUE)>>
    /\ result.Value.probes = <<Probe("OffsetCommitValue", TRUE)>>

----------------------------------------------------------------------------
(* Properties of content() and of the handle table *)

\* content() is about to read the tag byte t
AtTag(t) == ctl.op = "content" /\ pos < Len(buf) /\ buf[pos + 1] = t

\* content() is about to read a tag byte, whatever it is
AtSomeTag == ctl.op = "content" /\ pos < Len(buf)

\* the parser state apart from the cursor and the control is left as it is
NothingParsed ==
    /\ handles' = handles
    /\ classes' = classes
    /\ maps' = maps
    /\ stack' = stack
    /\ maxAlloc' = maxAlloc
    /\ refs' = refs

\* C11: content() rejects every tag byte outside 0x70..0x7E, the bytes below
\* 0x70 like the bytes above 0x7E, with the error "unknown type": the byte is
\* put back, no parse function runs and no handle is allocated
UnknownTagsRejected ==
    [][(AtSomeTag /\ (buf[pos + 1] < 112 \/ buf[pos + 1] > 126)) =>
          /\ ctl'.op = "ret"
          /\ ctl'.err = "unknown type"
          /\ ctl'.val = Nil
          /\ pos' = pos
          /\ NothingParsed]_vars

\* a tag byte below 0x70 has been rejected as an unknown type
LowTagRejected ==
    /\ ctl.op = "ret"
    /\ ctl.err = "unknown type"
    /\ pos < Len(buf)
    /\ buf[pos + 1] < 112

\* C12: each of the 15 kinds of typeNames, read by content() where it is
\* allowed, is dispatched to a parse function: a tag in 0x70..0x7E is never
\* rejected for lack of one
KnownKindsDispatched ==
    (/\ AtSomeTag
     /\ buf[pos + 1] \in 112..126
     /\ ctl.allowed = "clazz" => typeNames[buf[pos + 1] - 111] \in allowedClazzNames)
    => ContentKind(ctl.allowed).err = NoErr

\* the value of the field named name of the object that is the parsed content
ContentField(name) == MapGet(maps[outcome.content.id], K(name))

\* a Reference of index i is about to be read in full, tag included
AtReference(i) ==
    /\ AtTag(113)
    /\ pos + 5 <= Len(buf)
    /\ Int32Of(Slice(buf, pos + 1, 4)) = 8257536 + i

\* C13: a Reference to a handle slot that is reserved and not yet filled, as
\* the slot of the object whose fields are being read is, is answered with
\* the marker "[CYCLE]" in one step that enters no parse function; the stream
\* of an object whose field refers to the object itself is parsed to the end
\* and the field holds the marker
CycleSafe ==
    /\ [](buf = StreamSelfRef /\ ctl.op = "halt" =>
             /\ outcome.status = "returned"
             /\ outcome.err = NoErr
             /\ outcome.content.k = "map"
             /\ ContentField(<<115>>) = Str(CycleMarker))
    /\ [][\A i \in 0..(Len(handles) - 1) :
             (AtReference(i) /\ handles[i + 1] = Nil) =>
                 /\ ctl'.op = "ret"
                 /\ ctl'.err = NoErr
                 /\ ctl'.val = Str(CycleMarker)
                 /\ stack' = stack
                 /\ handles' = handles]_vars

\* the object that refers to itself has been parsed
SelfReferenceParsed ==
    /\ buf = StreamSelfRef
    /\ ctl.op = "halt"
    /\ outcome.err = NoErr
    /\ Len(refs) = 1
    /\ handles[refs[1].i + 1] = outcome.content

\* C14: the handle table is append-only over every step of a parse: it never
\* gets shorter, a slot keeps what it holds, the one change to a slot being
\* the filling of a reserved, empty one, and a Reference leaves the whole
\* table as it is
HandlesAppendOnly ==
    [][/\ Len(handles') >= Len(handles)
       /\ \A i \in 1..Len(handles) :
             \/ handles'[i] = handles[i]
             \/ handles[i] = Nil /\ handles'[i] # Nil
       /\ AtTag(113) => handles' = handles]_vars

\* the reserved slot of an enum constant has been filled after a later slot
\* was taken
DeferredSlotFilled ==
    /\ buf = StreamEnum
    /\ ctl.op = "halt"
    /\ outcome.err = NoErr
    /\ Len(handles) = 3
    /\ handles[2].k = "map"
    /\ handles[3] = Str(<<88>>)

\* C15: handles are given out in wire order, each registration taking the
\* next index, and a Reference of id 0x7E0000 + k, for k below the number of
\* handles, resolves to the entity registered k-th (counting from 0): content()
\* returns what it makes of that entity
HandleOrdering ==
    /\ [][/\ Len(handles') <= Len(handles) + 1
          /\ \A k \in 0..(Len(handles) - 1) :
                (AtReference(k) /\ handles[k + 1] # Nil) =>
                    /\ ctl'.op = "ret"
                    /\ ctl'.err = NoErr
                    /\ ctl'.val = ContentPost(handles[k + 1], maps).val]_vars
    /\ [](buf = StreamObjectArray /\ ctl.op = "halt" =>
             /\ outcome.err = NoErr
             /\ Len(handles) = 3
             /\ handles[1].k = "cls"
             /\ handles[2].k = "map"
             /\ outcome.content = List(<<Str(<<120>>), Str(<<120>>)>>))

\* the Reference of id 0x7E0002 has resolved to the third entity registered
ThirdHandleResolved ==
    /\ buf = StreamObjectArray
    /\ ctl.op = "halt"
    /\ refs = <<[i |-> 2, n |-> 3]>>
    /\ outcome.content.l[2] = handles[3]

\* C16: in a parse that ends in success every Reference read asked for a slot
\* that was allocated at that moment: 0 <= refId - 0x7E0000 < number of
\* handles
ReferencesInRange ==
    (ctl.op = "halt" /\ outcome.status = "returned" /\ outcome.err = NoErr) =>
        \A j \in 1..Len(refs) : refs[j].i >= 0 /\ refs[j].i < refs[j].n

----------------------------------------------------------------------------
(* Properties of the length guards and of the result of a parse *)

\* the uint16 behind the two bytes that follow cursor p
UInt16At(p) == buf[p + 1] * 256 + buf[p + 2]

\* the uint32 behind the four bytes that follow cursor p is above m, for m
\* below 2^31
UInt32Above(p, m) ==
    \/ buf[p + 1] >= 128
    \/ buf[p + 1] * 16777216 + buf[p + 2] * 65536 + buf[p + 3] * 256 + buf[p + 4] > m

\* the uint32 behind the four bytes that follow cursor p is 0
UInt32Zero(p) == \A i \in 1..4 : buf[p + i] = 0

\* content() is about to read a block, a string or a class name that declares
\* more bytes than maxDataBlockSize; n is the number of bytes up to the end
\* of the declared length, the tag included
OversizedAt(n) ==
    \/ /\ n = 5 /\ AtTag(122) /\ pos + 5 <= Len(buf)
       /\ UInt32Above(pos + 1, maxDataBlockSize)
    \/ /\ n = 3 /\ (AtTag(116) \/ AtTag(114)) /\ pos + 3 <= Len(buf)
       /\ UInt16At(pos + 1) > maxDataBlockSize
    \/ /\ n = 9 /\ AtTag(124) /\ pos + 9 <= Len(buf)
       /\ UInt32Zero(pos + 1)
       /\ UInt32Above(pos + 5, maxDataBlockSize)

\* C17: a BlockDataLong, a string or a long string that declares a length
\* above maxDataBlockSize, which is len(buf) for ParseSerializedObject(buf),
\* fails at once: the cursor stops behind the declared length, no byte of
\* the block is read, nothing of that size is allocated, no handle is taken,
\* and the error ends the parse in the next step
OversizedBlocksRejected ==
    [][/\ \A n \in {3, 5, 9} :
             OversizedAt(n) =>
                 /\ ctl'.op = "ret"
                 /\ ctl'.err = "block data exceeds size of reader buffer"
                 /\ pos' = pos + n
                 /\ NothingParsed
       /\ (ctl.op = "ret" /\ ctl.err # NoErr) =>
             /\ ctl'.op = "halt"
             /\ outcome'.status = "returned"
             /\ outcome'.err # NoErr
             /\ pos' = pos
             /\ maxAlloc' = maxAlloc]_vars

\* a BlockDataLong declaring more bytes than the input has was rejected
\* behind its length
OversizedBlockRejected ==
    /\ Len(buf) >= 9
    /\ buf[5] = 122
    /\ ctl.op = "halt"
    /\ outcome.err = "block data exceeds size of reader buffer"
    /\ pos = 9
    /\ maxAlloc = 0

\* C18: the int32 length of an Array is bounded by maxDataBlockSize: no
\* element loop of parseArray runs over storage of a declared length above it
ArrayLengthGuarded ==
    \A i \in 1..Len(stack) :
        stack[i].f = "arrayElems" => stack[i].size <= maxDataBlockSize

\* C19: whenever ParseSerializedObject returns an error, the value next to it
\* is nil
NoPartialValue ==
    (ctl.op = "halt" /\ outcome.status = "returned" /\ outcome.err # NoErr) =>
        outcome.content = Nil

Accepted == ctl.op = "halt" /\ outcome.status = "returned" /\ outcome.err = NoErr
Rejected == ctl.op = "halt" /\ outcome.status = "returned" /\ outcome.err # NoErr

IsProperPrefix(a, b) == Len(a) < Len(b) /\ SubSeq(b, 1, Len(a)) = a

\* the streams of BaseStreams that a JVM can read back
WellFormedStreams ==
    {BaseStreams[i] : i \in 1..Len(BaseStreams)} \ {StreamNegativeArray, StreamCalendar}

\* C20: a stream is accepted only when the top-level content ends on the
\* last byte of the input: a stream a JVM can read back is accepted, each of
\* its proper prefixes is rejected, and the stream followed by more bytes is
\* rejected with "object already parsed but there is more data"
AcceptedExactly ==
    ctl.op = "halt" =>
        /\ Accepted => pos = Len(buf) /\ pos > 4
        /\ buf \in WellFormedStreams => Accepted
        /\ (\E s \in WellFormedStreams : IsProperPrefix(buf, s)) => Rejected
        /\ (\E s \in WellFormedStreams : IsProperPrefix(s, buf)) =>
              /\ Rejected
              /\ outcome.err = "object already parsed but there is more data"

\* a stream followed by one more byte has been rejected
TrailingByteRejected ==
    /\ buf = StreamString \o <<112>>
    /\ ctl.op = "halt"
    /\ outcome.err = "object already parsed but there is more data"
    /\ pos = Len(StreamString)

----------------------------------------------------------------------------
(* Properties of the class data of an Object *)

\* the mechanism bits of class descriptor c are none of 0x02, 0x03, 0x0c
BadMechanism(c) == classes[c].flags % 16 \notin {2, 3, 12}

\* the frames of the Objects whose class data is being read
ObjectFrames == {i \in 1..Len(stack) : stack[i].f = "object"}

\* C21: an Object fails with an error whenever a class of its chain has
\* mechanism bits other than 0x02, 0x03 and 0x0c: a parse that ends while
\* such a class is still to be read ends by returning an error. Field values
\* are read for 0x02 and 0x03 only, annotations for 0x03 and 0x0c only
MechanismEnforced ==
    /\ [](\A i \in ObjectFrames :
             /\ stack[i].phase = "values" =>
                   classes[Head(stack[i].chain)].flags % 16 \in {2, 3}
             /\ stack[i].phase = "anns" =>
                   classes[Head(stack[i].chain)].flags % 16 \in {3, 12})
    /\ [][(/\ ctl'.op = "halt"
           /\ \E i \in ObjectFrames :
                 \E j \in 1..Len(stack[i].chain) : BadMechanism(stack[i].chain[j]))
          => (outcome'.status = "returned" /\ outcome'.err # NoErr)]_vars

\* C22: the class data of an Object is read oldest ancestor first, each class
\* of the chain being the superclass of the next, and flattened into one map
\* in that order: of a field name declared at two levels the map holds the
\* value read for the subclass
SubclassFieldWins ==
    /\ \A i \in ObjectFrames :
          \A j \in 1..(Len(stack[i].chain) - 1) :
              classes[stack[i].chain[j + 1]].super = stack[i].chain[j]
    /\ (buf = StreamInherit /\ ctl.op = "halt") =>
          /\ outcome.status = "returned"
          /\ outcome.err = NoErr
          /\ outcome.content.k = "map"
          /\ ContentField(<<110>>) = Num("B", <<5>>)
          /\ ContentField(<<109>>) = Num("S", <<0, 9>>)

\* the object whose class and superclass both declare the field n has been
\* parsed: the superclass data was read first
InheritedFieldRead ==
    /\ buf = StreamInherit
    /\ ctl.op = "halt"
    /\ outcome.err = NoErr
    /\ Len(classes) = 2
    /\ classes[1].super = 2
    /\ \E i \in 1..Len(maps) : MapGet(maps[i], K(<<110>>)) = Bool(TRUE)

----------------------------------------------------------------------------
(* The truncation of Base64JavaSerde *)

\* the place of the i-th element of a container: its index in a slice, its
\* key in a map
PlaceOf(h, v, i) == IF v.k = "map" THEN h[v.id][i].key ELSE [i |-> i]

\* the values that are no containers in the graph of v, each with the path
\* of places that leads to it; a value at a path of k places lies in a
\* container of level k
RECURSIVE Leaves(_, _, _, _)
Leaves(h, v, path, fuel) ==
    IF ~IsContainer(v) THEN {[path |-> path, v |-> v]}
    ELSE IF fuel = 0 THEN {}
    ELSE UNION {Leaves(h, Children(h, v)[i], Append(path, PlaceOf(h, v, i)), fuel - 1)
                  : i \in 1..Len(Children(h, v))}

\* the containers in the graph of v, each with its path and its size; a
\* container at a path of k places is of level k + 1
RECURSIVE Containers(_, _, _, _)
Containers(h, v, path, fuel) ==
    IF ~IsContainer(v) \/ fuel = 0 THEN {}
    ELSE {[path |-> path, size |-> Len(Children(h, v))]}
         \cup UNION {Containers(h, Children(h, v)[i], Append(path, PlaceOf(h, v, i)), fuel - 1)
                       : i \in 1..Len(Children(h, v))}

LeavesIn == Leaves(nodesIn, javaObject.obj, <<>>, MaxNest + 1)
LeavesOut == Leaves(nodes, recordPayload.DeserializedPayload, <<>>, MaxNest + 1)
ContainersIn == Containers(nodesIn, javaObject.obj, <<>>, MaxNest + 1)
ContainersOut == Containers(nodes, recordPayload.DeserializedPayload, <<>>, MaxNest + 1)

SerdeReturned == serdePc = "done" /\ recordPayload.err = NoErr

\* the first n units of s, s itself when it has no more
FirstUnits(s, n) == IF Len(s) > n THEN SubSeq(s, 1, n) ELSE s

Shortened(v) == IF v.k = "str" THEN Str(FirstUnits(v.s, 4000)) ELSE v

\* the value handed to truncateObject is nested n containers deep
NestedDeep(n) ==
    /\ \E c \in ContainersIn : Len(c.path) + 1 = n
    /\ \A c \in ContainersIn : Len(c.path) + 1 <= n

\* the data of the containers of level k is what it was, long strings
\* shortened
LevelIntact(k) ==
    {l \in LeavesOut : Len(l.path) = k}
      = {[l EXCEPT !.v = Shortened(l.v)] : l \in {m \in LeavesIn : Len(m.path) = k}}

\* C23: truncateObject with maxDepth = 7 on a value nested 10 containers deep
\* leaves the data of levels 1 to 7 as it was and the containers of levels 8
\* to 10 empty
DepthSevenKept ==
    (SerdeReturned /\ NestedDeep(10)) =>
        /\ \A k \in 1..7 : LevelIntact(k)
        /\ \A c \in ContainersOut : Len(c.path) + 1 \in 8..10 => c.size = 0

\* C24: after truncateObject every string left in the graph, at the top, in a
\* list or in a map, has at most 4000 units: it is the first 4000 units of
\* the string that stood there when that one was longer, and that string
\* itself otherwise
StringsTruncated ==
    SerdeReturned =>
        \A l \in LeavesOut :
            l.v.k = "str" =>
                /\ Len(l.v.s) <= 4000
                /\ \E m \in LeavesIn :
                      /\ m.path = l.path
                      /\ m.v.k = "str"
                      /\ l.v.s = FirstUnits(m.v.s, 4000)

\* a string of 5000 units in a map of level 2 has been cut to its first 4000
LongStringCut ==
    /\ SerdeReturned
    /\ \E l \in LeavesOut, m \in LeavesIn :
          /\ l.path = m.path
          /\ Len(l.path) = 2
          /\ l.path[2] \in {K(<<96 + i>>) : i \in 1..3}
          /\ m.v.k = "str" /\ Len(m.v.s) = 5000
          /\ l.v = Str(SubSeq(m.v.s, 1, 4000))

----------------------------------------------------------------------------
(* DeserializeRecord called a second time on the same record *)

\* the payloads of a deserializedRecord by their place: the key, the value
\* and the headers by their key
PlacesOf(rec) ==
    {[part |-> "Key", key |-> K("")], [part |-> "Value", key |-> K("")]}
    \cup {[part |-> "Header", key |-> rec.Headers.m[i].key] : i \in 1..Len(rec.Headers.m)}

PayloadAt(rec, place) ==
    IF place.part = "Key" THEN rec.Key
    ELSE IF place.part = "Value" THEN rec.Value
    ELSE MapGet(rec.Headers.m, place.key)

\* what the decoders and the services answered while p was made: the outcome
\* of every probe and the schema id the protobuf service found
AnswersOf(p) ==
    IF p.isNil THEN <<>>
    ELSE <<p.probes, IF p.RecognizedEncoding = "protobuf" THEN p.SchemaID ELSE NoSchemaID>>

\* (encoding, normalized payload, schemaId) of a payload
TripleOf(p) ==
    IF p.isNil THEN <<>>
    ELSE <<p.RecognizedEncoding, p.Payload.Payload, p.SchemaID>>

SecondCallDone == pc = "done" /\ calls = 2

SameAnswers ==
    /\ first.Headers.isNil = result.Headers.isNil
    /\ PlacesOf(first) = PlacesOf(result)
    /\ \A place \in PlacesOf(first) :
          AnswersOf(PayloadAt(first, place)) = AnswersOf(PayloadAt(result, place))

RecordKept ==
    pc = "done" =>
        /\ record.Key = input.Key
        /\ record.Value = input.Value
        /\ record.Headers = input.Headers

----------------------------------------------------------------------------
(* The JSON steps of deserializePayload *)

\* the bytes of a JSON text that make its structure: the text without the
\* whitespace outside its strings. Two texts with the same such bytes parse
\* to equal structures
RECURSIVE JsonSignificant(_, _, _)
JsonSignificant(s, i, inString) ==
    IF i > Len(s) THEN <<>>
    ELSE IF inString
    THEN IF s[i] = 92 /\ i < Len(s)
         THEN <<s[i], s[i + 1]>> \o JsonSignificant(s, i + 2, TRUE)
         ELSE <<s[i]>> \o JsonSignificant(s, i + 1, s[i] # 34)
    ELSE IF IsWs(s[i]) THEN JsonSignificant(s, i + 1, FALSE)
    ELSE <<s[i]>> \o JsonSignificant(s, i + 1, s[i] = 34)

\* r is tagged json and its normalized payload parses to the structure of p
RoundTrips(p, r) ==
    /\ r.RecognizedEncoding = "json"
    /\ ~r.Payload.Payload.isNil
    /\ JsonUnmarshalOk(r.Payload.Payload.b)
    /\ JsonSignificant(r.Payload.Payload.b, 1, FALSE) = JsonSignificant(p.b, 1, FALSE)

IsFramedJSON(p) ==
    /\ Len(p.b) > 5
    /\ p.b[1] = 0
    /\ p.b[6] \in {91, 123}
    /\ JsonUnmarshalOk(SubSeq(p.b, 6, Len(p.b)))

\* r is tagged json with the schema id and the message of the frame p
FrameDecoded(p, r) ==
    /\ r.RecognizedEncoding = "json"
    /\ r.SchemaID = BigEndianUint32(SubSeq(p.b, 2, 5))
    /\ r.Payload.Payload = BytesOf(SubSeq(p.b, 6, Len(p.b)))

\* C28: a payload of more than 5 bytes whose first byte is 0x00 and whose
\* bytes from offset 5 on start with [ or { and parse as JSON is tagged json,
\* with the big-endian uint32 of bytes 1..4 as schema id and the bytes from
\* offset 5 on as normalized payload
FramedJsonRecognised ==
    \A p \in PayloadsOf(record), recordType \in RecordTypes :
        IsFramedJSON(p) =>
            \A r \in deserializePayload(deserializer, p, record.Topic, recordType) :
                FrameDecoded(p, r)

----------------------------------------------------------------------------
(* The collaborators of deserializePayload *)

HasProbe(r, name, ok) == \E i \in 1..Len(r.probes) : r.probes[i] = Probe(name, ok)

\* r without the trace of the steps named
WithoutProbes(r, names) ==
    [r EXCEPT !.probes = SelectSeq(@, LAMBDA x : x.probe \notin names)]

WithoutSchemaService(dd) == [dd EXCEPT !.SchemaService = [isNil |-> TRUE]]

WithoutProtoService(dd) == [dd EXCEPT !.ProtoService = [isNil |-> TRUE, schemaIDs |-> {}]]

\* C29: when the Avro schema lookup or decode, or the protobuf unmarshal or
\* the parse of its JSON, fails, deserializePayload goes on to the remaining
\* steps and returns what it would return without that collaborator: no
\* error comes out and no field, the schema id least of all, keeps a value of
\* the failed attempt
FailureFallsThrough ==
    \A p \in PayloadsOf(record), recordType \in RecordTypes :
        \A r \in deserializePayload(deserializer, p, record.Topic, recordType) :
            /\ HasProbe(r, "avro", FALSE) =>
                  /\ ~r.isNil
                  /\ r.RecognizedEncoding # "avro"
                  /\ r.RecognizedEncoding # "protobuf" => r.SchemaID = NoSchemaID
                  /\ WithoutProbes(r, {"schemaJson", "avro"})
                        \in deserializePayload(WithoutSchemaService(deserializer), p,
                                               record.Topic, recordType)
            /\ HasProbe(r, "protobuf", FALSE) =>
                  /\ ~r.isNil
                  /\ r.RecognizedEncoding # "protobuf"
                  /\ r.SchemaID = NoSchemaID
                  /\ WithoutProbes(r, {"protobuf"})
                        \in deserializePayload(WithoutProtoService(deserializer), p,
                                               record.Topic, recordType)

\* a framed value whose Avro decode and protobuf unmarshal both failed has
\* come out of the later steps without a schema id
AvroFailureDone ==
    /\ GenericDone
    /\ input.Value = BytesOf(ValueFramedAvro)
    /\ HasProbe(result.Value, "avro", FALSE)
    /\ HasProbe(result.Value, "protobuf", FALSE)
    /\ result.Value.RecognizedEncoding \notin {"avro", "protobuf"}
    /\ result.Value.SchemaID = NoSchemaID


\* C30: MessagePack is tried only when the MessagePack service is configured
\* and the topic is on its allow-list: for every other topic no result is
\* tagged msgpack and the MessagePack decoder is not asked
MsgPackGated ==
    \A p \in PayloadsOf(record), recordType \in RecordTypes :
        \A r \in deserializePayload(deserializer, p, record.Topic, recordType) :
            (r.RecognizedEncoding = "msgpack" \/ HasProbe(r, "msgpack", TRUE)
             \/ HasProbe(r, "msgpack", FALSE))
                => /\ ~deserializer.MsgPackService.isNil
                   /\ record.Topic \in deserializer.MsgPackService.allowedTopics

\* a binary value on a topic that is not on the allow-list of the configured
\* MessagePack service has come out with another encoding than msgpack
DisallowedTopicDone ==
    /\ GenericDone
    /\ ~deserializer.MsgPackService.isNil
    /\ input.Topic \notin deserializer.MsgPackService.allowedTopics
    /\ input.Value = BytesOf(ValueBinary)
    /\ result.Value.RecognizedEncoding = "binary"
    /\ ~HasProbe(result.Value, "msgpack", FALSE)

----------------------------------------------------------------------------
(* The UTF-8 step of deserializePayload *)

IsControlByte(c) == (c >= 0 /\ c <= 31) \/ (c >= 127 /\ c <= 159)

HasControlByte(b) == \E i \in 1..Len(b) : IsControlByte(b[i])

\* r comes from the UTF-8 step: no step before it has succeeded
ReachedUtf8(r) == HasProbe(r, "utf8", TRUE) \/ HasProbe(r, "utf8", FALSE)

\* C31: a payload that no earlier step has recognised is tagged
\* utf8WithControlChars when it is valid UTF-8 with a byte in 0x00..0x1F or
\* 0x7F..0x9F, text when it is valid UTF-8 without such a byte, and binary
\* when it is not valid UTF-8; its normalized payload is the input unchanged
Utf8StepTags ==
    \A p \in PayloadsOf(record), recordType \in RecordTypes :
        \A r \in deserializePayload(deserializer, p, record.Topic, recordType) :
            ReachedUtf8(r) =>
                /\ r.RecognizedEncoding =
                      (IF ~Utf8Valid(p.b) THEN "binary"
                       ELSE IF HasControlByte(p.b) THEN "utf8WithControlChars"
                       ELSE "text")
                /\ r.Payload.RecognizedEncoding = r.RecognizedEncoding
                /\ r.Payload.Payload = p

\* a value of two bytes, valid UTF-8 with the byte 0x80, has come out as
\* utf8WithControlChars, its bytes unchanged
HighByteDone ==
    /\ GenericDone
    /\ input.Value = BytesOf(ValueUtf8High)
    /\ ReachedUtf8(result.Value)
    /\ result.Value.RecognizedEncoding = "utf8WithControlChars"
    /\ result.Value.Payload.Payload = BytesOf(ValueUtf8High)

\* a structured format has recognised the payload: r comes from a step before
\* the UTF-8 one
Structured(r) ==
    \E i \in 1..Len(r.probes) : r.probes[i].ok /\ r.probes[i].probe \notin {"utf8", "binary"}

\* C36 as stated: a payload that is not empty and comes back as text is
\* valid UTF-8 without a control byte, and a valid UTF-8 payload with a
\* control byte that no structured format recognises is tagged
\* utf8WithControlChars
TextHasNoControl ==
    \A p \in PayloadsOf(record), recordType \in RecordTypes :
        \A r \in deserializePayload(deserializer, p, record.Topic, recordType) :
            /\ (Len(p.b) > 0 /\ r.RecognizedEncoding = "text")
                  => (Utf8Valid(p.b) /\ ~HasControlByte(p.b))
            /\ (Utf8Valid(p.b) /\ HasControlByte(p.b) /\ ~Structured(r))
                  => r.RecognizedEncoding = "utf8WithControlChars"

\* p holds whitespace only: blanks, tabs, carriage returns, line feeds
IsBlank(p) == Len(p.b) > 0 /\ \A i \in 1..Len(p.b) : p.b[i] \in {32, 9, 13, 10}

\* C36: a payload that is not empty, not whitespace only, and comes back as
\* text is valid UTF-8 without a control byte, and a valid UTF-8 payload with
\* a control byte that is not whitespace only and that no structured format
\* recognises is tagged utf8WithControlChars; a payload of whitespace only is
\* text, tabs and line ends included
TextHasNoControlUnlessBlank ==
    \A p \in PayloadsOf(record), recordType \in RecordTypes :
        \A r \in deserializePayload(deserializer, p, record.Topic, recordType) :
            /\ (Len(p.b) > 0 /\ ~IsBlank(p) /\ r.RecognizedEncoding = "text")
                  => (Utf8Valid(p.b) /\ ~HasControlByte(p.b))
            /\ (Utf8Valid(p.b) /\ HasControlByte(p.b) /\ ~IsBlank(p)
                /\ ~Structured(r))
                  => r.RecognizedEncoding = "utf8WithControlChars"
            /\ IsBlank(p) => r.RecognizedEncoding = "text"

\* a value of a blank and a tab has come out as text
BlankDone ==
    /\ GenericDone
    /\ input.Value = BytesOf(ValueWhitespace)
    /\ HasControlByte(input.Value.b)
    /\ result.Value.RecognizedEncoding = "text"

----------------------------------------------------------------------------
(* Class descriptors and references *)

\* content() is about to read a class descriptor whose name has fewer than 2
\* bytes
AtShortClassName ==
    /\ AtTag(114)
    /\ utf(pos + 1).err = NoErr
    /\ Len(utf(pos + 1).s) < 2

\* C35: a class descriptor whose name is shorter than 2 bytes fails the parse
\* with an error: it is neither accepted nor taken for a null class
\* descriptor, and nothing is parsed after it
ShortClassNameRejected ==
    [][AtShortClassName =>
          /\ ctl'.op = "ret"
          /\ ctl'.err # NoErr]_vars


\* content() is about to read a class descriptor whose name and
\* serialVersionUID are in the input
AtClassDesc ==
    /\ AtTag(114)
    /\ utf(pos + 1).err = NoErr
    /\ Len(utf(pos + 1).s) >= 2
    /\ readString(utf(pos + 1).p, 8, FALSE).err = NoErr

\* the frames of the class descriptors whose flags, fields, annotations or
\* superclass are being read
ClassFrames ==
    {i \in 1..Len(stack) :
        stack[i].f \in {"classDesc", "fieldClassName", "classAnns", "classSuper"}}

\* C32: a class descriptor gets its handle in the step that reads its name
\* and serialVersionUID, before its flags, fields, annotations and
\* superclass: while those are read the descriptor stands in the handle
\* table below everything registered since, and a Reference to its index is
\* answered with the descriptor itself, not with the cycle marker nor with
\* nil, so that a class can be its own superclass
ClassRegisteredFirst ==
    /\ [][AtClassDesc =>
             /\ handles' = Append(handles, Cls(Len(classes) + 1))
             /\ Len(classes') = Len(classes) + 1]_vars
    /\ [](\A i \in ClassFrames :
             \E h \in 1..Len(handles) : handles[h] = Cls(stack[i].cls))
    /\ [][\A i \in ClassFrames :
             /\ Len(handles') >= Len(handles)
             /\ \A h \in 1..Len(handles) :
                   handles[h] = Cls(stack[i].cls) => handles'[h] = handles[h]]_vars
    /\ [][\A i \in ClassFrames, h \in 1..Len(handles) :
             (AtReference(h - 1) /\ handles[h] = Cls(stack[i].cls)) =>
                 /\ ctl'.op = "ret"
                 /\ ctl'.err = NoErr
                 /\ ctl'.val = Cls(stack[i].cls)]_vars
    /\ [](buf = StreamClass /\ ctl.op = "halt" =>
             /\ outcome.status = "returned"
             /\ outcome.err = NoErr
             /\ classes[1].super = 1)

\* the class whose superclass is a Reference to the class itself has been
\* parsed
OwnSuperclassParsed ==
    /\ buf = StreamClass
    /\ ctl.op = "halt"
    /\ outcome.err = NoErr
    /\ Len(classes) = 1
    /\ classes[1].super = 1
    /\ handles[1] = Cls(1)


----------------------------------------------------------------------------
(* References to entities whose parse is over *)

\* the streams of an array of two elements whose second element is a
\* Reference to the first: a string, an array, an object
BackRefStreams == {StreamObjectArray, StreamArrayBackRef, StreamObjectBackRef}

\* C33: a Reference to an entity whose parse is over yields, through
\* content(), the value content() returned when the entity was parsed: in an
\* array of two elements whose second element is a Reference to the first,
\* both elements are equal, and a Reference to an array yields its elements
ReferenceRepeatsValue ==
    (buf \in BackRefStreams /\ ctl.op = "halt") =>
        /\ outcome.err = NoErr
        /\ outcome.content.k = "list"
        /\ Len(outcome.content.l) = 2
        /\ outcome.content.l[2] = outcome.content.l[1]

----------------------------------------------------------------------------
(* The lists of java.util *)

\* classData is about to run the post processor of a known list class on the
\* annotations read
AtListEnd ==
    /\ ctl.op = "ret" /\ ctl.err = NoErr
    /\ Len(stack) > 0
    /\ Top.f = "object" /\ Top.phase = "anns"
    /\ ctl.val = EndBlock
    /\ PostProcOf(CurClass) = "list"

\* the annotations start with block data of at least 4 bytes whose first 4
\* bytes are the big-endian count of the annotations that follow
CountedList(data) ==
    /\ Len(data) >= 1
    /\ data[1].k = "bytes"
    /\ Len(data[1].b) >= 4
    /\ SubSeq(data[1].b, 1, 4) = <<0, 0, 0, Len(data) - 1>>

ListStreams ==
    {StreamArrayList, StreamArrayListEmpty, StreamArrayDeque, StreamCopyOnWrite}

\* C34: for ArrayList, ArrayDeque and CopyOnWriteArrayList the parsed value
\* is the sequence of the annotations after the leading block data, as many
\* as the int32 in the first 4 bytes of that block; when the count differs
\* or the first annotation is not block data of at least 4 bytes the post
\* processor returns an error, and an error fails the whole parse
ListValue ==
    /\ [][AtListEnd =>
            IF CountedList(Top.anns)
            THEN /\ ctl'.op = "run"
                 /\ MapGet(maps'[Top.vals], K(OBJECT_VALUE_NAME)) = List(Tail(Top.anns))
                 /\ MapGet(maps'[Top.obj], K(OBJECT_VALUE_NAME)) = List(Tail(Top.anns))
            ELSE /\ ctl'.op = "ret"
                 /\ ctl'.err # NoErr]_vars
    /\ [][(ctl.op = "ret" /\ ctl.err # NoErr) =>
            /\ ctl'.op = "halt"
            /\ outcome'.status = "returned"
            /\ outcome'.err # NoErr]_vars
    /\ [](ctl.op = "halt" =>
            /\ buf = StreamArrayList => outcome.content = List(<<Str(<<120>>)>>)
            /\ buf = StreamArrayListEmpty => outcome.content = List(<<>>)
            /\ buf = StreamArrayDeque => outcome.content = List(<<Str(<<120>>), Str(<<121>>)>>)
            /\ buf = StreamCopyOnWrite => outcome.content = List(<<Str(<<120>>)>>)
            /\ buf \in ListStreams => outcome.err = NoErr
            /\ buf \in {StreamArrayListShortBlock, StreamArrayListMissing} =>
                   outcome.err # NoErr)

\* the ArrayDeque of two elements has been parsed
TwoElementListParsed ==
    /\ buf = StreamArrayDeque
    /\ ctl.op = "halt"
    /\ outcome.err = NoErr
    /\ outcome.content.k = "list"
    /\ Len(outcome.content.l) = 2

----------------------------------------------------------------------------
(* The sizes DeserializeRecord reports *)

\* the lengths of the values of the headers of rec that carry the key k
HeaderLengths(rec, k) ==
    {Len(rec.Headers[j].Value.b) : j \in {i \in 1..Len(rec.Headers) : K(rec.Headers[i].Key) = k}}

\* C37: the Size of every key, value and header result of DeserializeRecord
\* is the number of raw bytes of that payload in the record that was consumed,
\* also when parseJavaToJson is set and the value is a Java object in base64
SizeIsRawLength ==
    (pc = "done" /\ calls = 1 /\ ~result.isNil) =>
        /\ ~result.Key.isNil => result.Key.Size = Len(input.Key.b)
        /\ ~result.Value.isNil => result.Value.Size = Len(input.Value.b)
        /\ ~result.Headers.isNil =>
              \A i \in 1..Len(result.Headers.m) :
                  result.Headers.m[i].val.Size
                      \in HeaderLengths(input, result.Headers.m[i].key)

----------------------------------------------------------------------------
(* The Java conversion of DeserializeRecord as a probe *)

\* values in base64 whose Java stream the parser rejects: a stream cut short
\* and a stream holding an unknown tag
UnparsableValues ==
    {BytesOf(Base64Encode(s)) : s \in {SubSeq(StreamString, 1, 3), <<172, 237, 0, 5, 255>>}}

\* the key and the headers of the result are those of deserializePayload on
\* the bytes of the record, whatever parseJavaToJson is
KeyAndHeadersPlain ==
    /\ result.Key \in deserializePayload(deserializer, input.Key, input.Topic, "key")
    /\ HeadersFrom(input)

ValuePlain ==
    result.Value \in deserializePayload(deserializer, input.Value, input.Topic, "value")

----------------------------------------------------------------------------
(* The message search of TopicMessageView *)

\* C39: while a search started by searchFunc is running, an 'auto' trigger
\* whose parameter string is the one that search was started with never
\* stops it (and so starts no other), whatever triggers and finally callbacks
\* of earlier searches came in between; and a search is started only once
\* the search under way has been stopped: no two searches run together
AutoKeepsRunningSearch ==
    /\ \A i \in 1..Len(searches) :
          searches[i].stoppedBy = "auto" => searches[i].stoppedWith # searches[i].params
    /\ Cardinality(Running) <= 1

----------------------------------------------------------------------------
(* The notifications of ConfirmDeleteAllRecordsModal *)

\* the failures the answers of the server hold: a topic answered with null,
\* a partition answered with an error
Failures ==
    {[topic |-> server.topics.list[i], partition |-> -1, error |-> "doesn't have partitions"]
       : i \in {j \in 1..Len(server.topics.list) : server.responses[j].kind = "null"}}
    \cup UNION {{[topic |-> server.topics.list[i],
                  partition |-> server.responses[i].partitions[k].partitionId,
                  error |-> server.responses[i].partitions[k].error]
                   : k \in {n \in 1..Len(server.responses[i].partitions) :
                               server.responses[i].partitions[n].error # Null}}
                  : i \in 1..Len(server.topics.list)}

\* the notifications of the given type shown so far
Shown(type) ==
    {notifications[i].message : i \in {j \in 1..Len(notifications) : notifications[j].type = type}}

\* C40: once the chain of onOk has settled deletionPending is false; when the
\* deletion failed for a topic (null answer) or a partition (error set), no
\* promise being rejected, an error notification is shown for each failure
\* and the 'deleted successfully' notification is not shown
FailuresNotified ==
    modalPc = "settled" =>
        /\ ~deletionPending
        /\ (attempts = 1 /\ error = Null /\ Failures # {}) =>
              /\ Failures \subseteq Shown("error")
              /\ Shown("success") = {}
====
